---- MODULE Spec2Model ----
(***************************************************************************)
(* Adaptive assessment and prerequisite gating of the self-paced learning  *)
(* portal: the progress tracker (services/progress_service.py), the        *)
(* rule-based quiz analysis (services/quiz_analysis_utils.py) and the      *)
(* enrichment layer (services/ai_service.py).                              *)
(*                                                                         *)
(* Python strings are TLA+ strings; \o, Len and SubSeq act on them         *)
(* character by character.  Python lists are sequences, dicts are          *)
(* functions, sets are sets.                                               *)
(***************************************************************************)
EXTENDS Integers, Sequences, FiniteSets, TLC

VARIABLES
    session,                 \* flask.session of the one learner: key -> value
    test_completed_lessons,  \* ProgressService._test_completed_lessons: key -> set of ids
    test_watched_videos,     \* ProgressService._test_watched_videos: key -> set of ids
    test_admin_override,     \* ProgressService._test_admin_override
    ret,                     \* repr of what the last ProgressService call returned
    quiz,                    \* the submission under analysis: questions, answers, subject
    analysis,                \* what the last analysis call returned (or raised)
    analysis_cache,          \* AIService._analysis_cache: cache key -> cached fields
    api_key,                 \* AIService.api_key, read from the environment at construction
    allowed_tags_config,     \* the content store: subject -> configured allowed tags
    allowed_tag_cache,       \* quiz_analysis_utils._ALLOWED_TAG_CACHE: subject.lower() -> tags
    question_pool,           \* the content store: the question pool of the active subtopic
    response                 \* what the last route or selection call gave its caller

vars == <<session, test_completed_lessons, test_watched_videos,
          test_admin_override, ret, quiz, analysis, analysis_cache, api_key,
          allowed_tags_config, allowed_tag_cache, question_pool, response>>

progressVars == <<session, test_completed_lessons, test_watched_videos,
                  test_admin_override, ret>>

analysisVars == <<quiz, analysis, analysis_cache, api_key, allowed_tags_config,
                  allowed_tag_cache>>

flowVars == <<question_pool, response>>

(***************************************************************************)
(* Bounds of the model.                                                    *)
(***************************************************************************)
\* Progress-changing calls are taken while fewer than this many entries are stored.
MaxStored == 3

\* Python's None, and the value of a dict.get on an absent key.
None == "<None>"

\* repr() of a bool: how the model records a call's boolean return value.
Repr(b) == IF b THEN "True" ELSE "False"

\* Python truthiness of a string-or-None value.
Truthy(v) == v # None /\ v # ""

\* a or b
Or(a, b) == IF Truthy(a) THEN a ELSE b

\* dict.get(field) on a JSON object modelled as a function over its fields.
Get(obj, field) == IF field \in DOMAIN obj THEN obj[field] ELSE None

\* dict.get(key, default) on the session or a fallback store.
DictGet(d, key, default) == IF key \in DOMAIN d THEN d[key] ELSE default

\* d[key] = value
DictSet(d, key, value) ==
    [k \in DOMAIN d \cup {key} |-> IF k = key THEN value ELSE d[k]]

\* d.pop(key, None)
DictPop(d, key) == [k \in DOMAIN d \ {key} |-> d[k]]

\* The empty dict.
EmptyDict == [k \in {} |-> None]

\* x in list
InList(x, list) == \E i \in 1..Len(list) : list[i] = x

\* set(list)
ToSet(list) == {list[i] : i \in 1..Len(list)}

\* list(a_set): the elements in some order (Python fixes none).
RECURSIVE ToList(_)
ToList(S) ==
    IF S = {} THEN <<>>
    ELSE LET x == CHOOSE y \in S : TRUE IN <<x>> \o ToList(S \ {x})

\* key.startswith(prefix)
startswith(key, prefix) ==
    Len(prefix) <= Len(key) /\ SubSeq(key, 1, Len(prefix)) = prefix

(***************************************************************************)
(* The content store (an external collaborator): subject configuration,    *)
(* lesson plans and videos of two subjects.  Subtopic "a" of "py" has two  *)
(* lessons and one video; "c" requires "a"; "a_b" lists a blank entry, an  *)
(* unknown subtopic and a repeated one among its prerequisites.  Subject    *)
(* "web" has videos named by video_id and by topic_key, and no lessons.    *)
(***************************************************************************)
Subjects == {"py", "py_a"}

\* data_service.load_subject_config(subject)["subtopics"]
load_subject_config(subject) ==
    CASE subject = "py" ->
           [a   |-> [name |-> "Basics", prerequisites |-> <<>>],
            c   |-> [name |-> "Loops", prerequisites |-> <<"a">>],
            a_b |-> [prerequisites |-> <<"c", " ", "ghost", "a", "c">>]]
      [] subject = "py_a" ->
           [b |-> [name |-> "Other", prerequisites |-> <<>>]]
      [] subject = "web" ->
           [v |-> [name |-> "Markup", prerequisites |-> <<>>],
            k |-> [name |-> "Forms", prerequisites |-> <<>>]]
      [] OTHER -> EmptyDict

\* loader.load_lesson_plans(subject, subtopic)["lessons"]: a mapping id -> lesson
\* (kind "dict", each item with its mapping key in "key") or a list of lessons
\* (kind "list").
load_lesson_plans(subject, subtopic) ==
    CASE subject = "py" /\ subtopic = "a" ->
           [kind |-> "dict",
            items |-> <<[key |-> "l1", title |-> "Intro"], [key |-> "l2"]>>]
      [] subject = "py" /\ subtopic = "c" ->
           [kind |-> "list", items |-> <<[id |-> "l1", title |-> "For"]>>]
      [] subject = "py_a" /\ subtopic = "b" ->
           [kind |-> "list", items |-> <<[id |-> "l2"], [title |-> "Untitled"]>>]
      [] OTHER -> [kind |-> "dict", items |-> <<>>]

\* loader.load_videos(subject, subtopic)["videos"]
load_videos(subject, subtopic) ==
    CASE subject = "py" /\ subtopic = "a" ->
           [kind |-> "list", items |-> <<[id |-> "v1", title |-> "Watch me"]>>]
      [] subject = "py" /\ subtopic = "a_b" ->
           [kind |-> "dict", items |-> <<[key |-> "v1"]>>]
      [] subject = "web" /\ subtopic = "v" ->
           [kind |-> "list", items |-> <<[video_id |-> "v1", title |-> "Tags"]>>]
      [] subject = "web" /\ subtopic = "k" ->
           [kind |-> "list", items |-> <<[id |-> "v1"], [topic_key |-> "forms"]>>]
      [] OTHER -> [kind |-> "list", items |-> <<>>]

\* The (subject, subtopic) pairs the learner's calls name.
Pairs == {<<"py", "a">>, <<"py", "c">>, <<"py", "a_b">>, <<"py_a", "b">>}

\* The pairs the read-only checks are asked about: also an unknown subtopic.
QueryPairs == Pairs \cup {<<"py", "ghost">>}

\* The lesson and video ids the learner's calls name.
LessonItemIds == {"l1", "l2"}
VideoItemIds == {"v1"}

(***************************************************************************)
(* String helpers: str.strip() and str.lower().                            *)
(***************************************************************************)
UpperCaseLetters == "ABCDEFGHIJKLMNOPQRSTUVWXYZ"
LowerCaseLetters == "abcdefghijklmnopqrstuvwxyz"

\* One character of a string, as a string.
CharAt(s, i) == SubSeq(s, i, i)

IsSpace(ch) == ch \in {" ", "\t", "\n"}

\* The lower-case letter of each upper-case letter.
LowerOf ==
    [ch \in {CharAt(UpperCaseLetters, i) : i \in 1..Len(UpperCaseLetters)} |->
        CharAt(LowerCaseLetters,
               CHOOSE i \in 1..Len(UpperCaseLetters) : CharAt(UpperCaseLetters, i) = ch)]

LowerChar(ch) == IF ch \in DOMAIN LowerOf THEN LowerOf[ch] ELSE ch

\* s.lower()
RECURSIVE lower(_)
lower(s) ==
    IF Len(s) = 0 THEN ""
    ELSE LowerChar(CharAt(s, 1)) \o lower(SubSeq(s, 2, Len(s)))

RECURSIVE lstrip(_)
lstrip(s) ==
    IF Len(s) > 0 /\ IsSpace(CharAt(s, 1)) THEN lstrip(SubSeq(s, 2, Len(s)))
    ELSE s

RECURSIVE rstrip(_)
rstrip(s) ==
    IF Len(s) > 0 /\ IsSpace(CharAt(s, Len(s)))
    THEN rstrip(SubSeq(s, 1, Len(s) - 1))
    ELSE s

\* s.strip()
strip(s) == lstrip(rstrip(s))

(***************************************************************************)
(* ProgressService: session keys.                                          *)
(***************************************************************************)
\* f"{subject}_{subtopic}_{key_type}"
get_session_key(subject, subtopic, key_type) ==
    subject \o "_" \o subtopic \o "_" \o key_type

\* The per-pair records clear_session_data is said to remove.
KeyTypes ==
    {"completed_lessons", "watched_videos", "analysis_results", "weak_topics",
     "remedial_questions", "remedial_topics", "current_quiz_type",
     "questions_served_for_analysis"}

\* The number of per-pair entries stored, in the session and in the fallback stores.
StoredEntries ==
    Cardinality(DOMAIN session \ {"admin_override"})
        + Cardinality(DOMAIN test_completed_lessons)
        + Cardinality(DOMAIN test_watched_videos)

(***************************************************************************)
(* ProgressService: lesson and video progress.  ctx is has_request_context()*)
(* of the call: with it the flask session is used, without it the          *)
(* per-process fallback store.  session.permanent only sets the cookie's   *)
(* lifetime and is not modelled.                                           *)
(***************************************************************************)
\* A plausible slip: the id is appended without the membership test.
MarkInSessionAlways(sess, key, item_id) ==
    DictSet(sess, key, Append(DictGet(sess, key, <<>>), item_id))

\* A plausible slip: the list is begun anew with the id marked.
MarkInSessionAlone(sess, key, item_id) == DictSet(sess, key, <<item_id>>)

\* The session after mark_lesson_complete / mark_video_complete in a request.
MarkInSession(sess, key, item_id) ==
    LET completed == DictGet(sess, key, <<>>)
    IN IF ~InList(item_id, completed)
       THEN DictSet(sess, key, Append(completed, item_id))
       ELSE sess

\* The fallback store after store.setdefault(key, set()).add(item_id).
MarkInFallback(store, key, item_id) ==
    DictSet(store, key, DictGet(store, key, {}) \cup {item_id})

mark_lesson_complete(subject, subtopic, lesson_id, ctx) ==
    LET key == get_session_key(subject, subtopic, "completed_lessons")
    IN IF ~ctx
       THEN /\ test_completed_lessons' =
                   MarkInFallback(test_completed_lessons, key, lesson_id)
            /\ ret' = "True"
            /\ UNCHANGED <<session, test_watched_videos, test_admin_override>>
       ELSE /\ session' = MarkInSession(session, key, lesson_id)
            /\ ret' = "True"
            /\ UNCHANGED <<test_completed_lessons, test_watched_videos,
                           test_admin_override>>

mark_video_complete(subject, subtopic, video_id, ctx) ==
    LET key == get_session_key(subject, subtopic, "watched_videos")
    IN IF ~ctx
       THEN /\ test_watched_videos' =
                   MarkInFallback(test_watched_videos, key, video_id)
            /\ ret' = "True"
            /\ UNCHANGED <<session, test_completed_lessons, test_admin_override>>
       ELSE /\ session' = MarkInSession(session, key, video_id)
            /\ ret' = "True"
            /\ UNCHANGED <<test_completed_lessons, test_watched_videos,
                           test_admin_override>>

update_progress(subject, subtopic, item_id, item_type, ctx) ==
    IF item_type = "lesson"
    THEN mark_lesson_complete(subject, subtopic, item_id, ctx)
    ELSE IF item_type = "video"
    THEN mark_video_complete(subject, subtopic, item_id, ctx)
    ELSE /\ ret' = "False"
         /\ UNCHANGED <<session, test_completed_lessons, test_watched_videos,
                        test_admin_override>>

\* is_lesson_complete reading the session whatever the context.
is_lesson_complete_in_session(subject, subtopic, lesson_id, ctx) ==
    InList(lesson_id,
           DictGet(session, get_session_key(subject, subtopic, "completed_lessons"), <<>>))

is_lesson_complete(subject, subtopic, lesson_id, ctx) ==
    LET key == get_session_key(subject, subtopic, "completed_lessons")
    IN IF ~ctx
       THEN lesson_id \in DictGet(test_completed_lessons, key, {})
       ELSE InList(lesson_id, DictGet(session, key, <<>>))

get_completed_lessons(subject, subtopic, ctx) ==
    LET completed_key == get_session_key(subject, subtopic, "completed_lessons")
    IN IF ~ctx
       THEN ToList(DictGet(test_completed_lessons, completed_key, {}))
       ELSE DictGet(session, completed_key, <<>>)

is_video_complete(subject, subtopic, video_id, ctx) ==
    LET watched_key == get_session_key(subject, subtopic, "watched_videos")
    IN IF ~ctx
       THEN video_id \in DictGet(test_watched_videos, watched_key, {})
       ELSE InList(video_id, DictGet(session, watched_key, <<>>))

get_watched_videos(subject, subtopic, ctx) ==
    LET watched_key == get_session_key(subject, subtopic, "watched_videos")
    IN IF ~ctx
       THEN ToList(DictGet(test_watched_videos, watched_key, {}))
       ELSE DictGet(session, watched_key, <<>>)

\* check_subtopic_progress: the counts and the completion flag of its result
\* (the percentages are completed / total * 100).
check_subtopic_progress(subject, subtopic, total_lessons, total_videos, ctx) ==
    LET completed_count == Len(get_completed_lessons(subject, subtopic, ctx))
        watched_count == Len(get_watched_videos(subject, subtopic, ctx))
        total_items == total_lessons + total_videos
        completed_items == completed_count + watched_count
    IN [completed_count |-> completed_count,
        watched_count |-> watched_count,
        completed_items |-> completed_items,
        total_items |-> total_items,
        is_complete |-> total_items > 0 /\ completed_items >= total_items]

(***************************************************************************)
(* ProgressService: admin override.                                        *)
(***************************************************************************)
get_admin_override_status(ctx) ==
    IF ~ctx THEN test_admin_override
    ELSE DictGet(session, "admin_override", FALSE)

set_admin_override(enabled, ctx) ==
    IF ~ctx
    THEN /\ test_admin_override' = enabled
         /\ ret' = Repr(enabled)
         /\ UNCHANGED <<session, test_completed_lessons, test_watched_videos>>
    ELSE /\ session' = DictSet(session, "admin_override", enabled)
         /\ ret' = Repr(enabled)
         /\ UNCHANGED <<test_completed_lessons, test_watched_videos,
                        test_admin_override>>

toggle_admin_override(ctx) ==
    set_admin_override(~get_admin_override_status(ctx), ctx)

(***************************************************************************)
(* ProgressService: quiz records of the session.  These calls read and     *)
(* write flask.session unconditionally, so they run inside a request.      *)
(***************************************************************************)
\* The loop of set_weak_topics: trim, drop blanks and non-strings, drop
\* case-insensitive repeats.
RECURSIVE set_weak_topics_loop(_, _, _)
set_weak_topics_loop(topics, normalized, seen) ==
    IF topics = <<>> THEN normalized
    ELSE LET topic == Head(topics)
             cleaned == strip(topic)
             key_lower == lower(cleaned)
         IN IF topic = None \/ cleaned = "" \/ key_lower \in seen
            THEN set_weak_topics_loop(Tail(topics), normalized, seen)
            ELSE set_weak_topics_loop(Tail(topics), Append(normalized, cleaned),
                                      seen \cup {key_lower})

set_weak_topics(subject, subtopic, topics) ==
    LET weak_key == get_session_key(subject, subtopic, "weak_topics")
    IN /\ session' =
              DictSet(session, weak_key, set_weak_topics_loop(topics, <<>>, {}))
       /\ ret' = "None"
       /\ UNCHANGED <<test_completed_lessons, test_watched_videos,
                      test_admin_override>>

get_weak_topics(subject, subtopic) ==
    DictGet(session, get_session_key(subject, subtopic, "weak_topics"), <<>>)

\* "\n".join(parts)
RECURSIVE join_lines(_)
join_lines(parts) ==
    IF parts = <<>> THEN ""
    ELSE IF Len(parts) = 1 THEN parts[1]
    ELSE parts[1] \o "\n" \o join_lines(Tail(parts))

\* text[:limit]
Truncate(text, limit) ==
    IF Len(text) <= limit THEN text ELSE SubSeq(text, 1, limit)

keys_to_keep ==
    {"score", "weak_topics", "weak_tags", "weak_areas", "missed_tags", "feedback",
     "ai_analysis", "recommendations", "allowed_tags", "used_ai"}

PreviewLimit == 1000

\* prepare_analysis_for_session: the kept fields, and short previews of the
\* submission details (a list of strings) and of the raw LLM response.
prepare_analysis_for_session(an) ==
    LET submission == Get(an, "submission_details")
        raw_response == Get(an, "raw_ai_response")
        hasSubmission == submission # None /\ submission # <<>>
        hasRaw == raw_response # None /\ raw_response # ""
        fields == (DOMAIN an \cap keys_to_keep)
                      \cup (IF hasSubmission THEN {"submission_preview"} ELSE {})
                      \cup (IF hasRaw THEN {"raw_ai_response_preview"} ELSE {})
    IN [k \in fields |->
           IF k = "submission_preview"
           THEN Truncate(join_lines(submission), PreviewLimit)
           ELSE IF k = "raw_ai_response_preview"
           THEN Truncate(raw_response, PreviewLimit)
           ELSE an[k]]

store_quiz_analysis(subject, subtopic, an) ==
    LET key == get_session_key(subject, subtopic, "analysis_results")
    IN /\ session' = DictSet(session, key, prepare_analysis_for_session(an))
       /\ ret' = "sanitized"
       /\ UNCHANGED <<test_completed_lessons, test_watched_videos,
                      test_admin_override>>

get_quiz_analysis(subject, subtopic) ==
    DictGet(session, get_session_key(subject, subtopic, "analysis_results"), None)

\* The session after set_remedial_quiz_data (topics None: not given).
RemedialStored(sess, subject, subtopic, questions, topics) ==
    LET questions_key == get_session_key(subject, subtopic, "remedial_questions")
        topics_key == get_session_key(subject, subtopic, "remedial_topics")
        withQuestions == DictSet(sess, questions_key, questions)
    IN IF topics # None THEN DictSet(withQuestions, topics_key, topics)
       ELSE withQuestions

set_remedial_quiz_data(subject, subtopic, questions, topics) ==
    /\ session' = RemedialStored(session, subject, subtopic, questions, topics)
    /\ ret' = "None"
    /\ UNCHANGED <<test_completed_lessons, test_watched_videos,
                   test_admin_override>>

get_remedial_quiz_questions(subject, subtopic) ==
    DictGet(session, get_session_key(subject, subtopic, "remedial_questions"), <<>>)

get_remedial_topics(subject, subtopic) ==
    DictGet(session, get_session_key(subject, subtopic, "remedial_topics"), <<>>)

\* The session after set_quiz_session_data.
QuizSessionStored(sess, subject, subtopic, quiz_type, questions) ==
    LET s1 == DictSet(sess,
                      get_session_key(subject, subtopic, "current_quiz_type"),
                      quiz_type)
        s2 == DictSet(s1,
                      get_session_key(subject, subtopic,
                                      "questions_served_for_analysis"),
                      questions)
        s3 == DictSet(s2, "current_subject", subject)
    IN DictSet(s3, "current_subtopic", subtopic)

set_quiz_session_data(subject, subtopic, quiz_type, questions) ==
    /\ session' = QuizSessionStored(session, subject, subtopic, quiz_type, questions)
    /\ ret' = "None"
    /\ UNCHANGED <<test_completed_lessons, test_watched_videos,
                   test_admin_override>>

get_quiz_session_data(subject, subtopic) ==
    [quiz_type |->
         DictGet(session, get_session_key(subject, subtopic, "current_quiz_type"),
                 None),
     questions |->
         DictGet(session,
                 get_session_key(subject, subtopic, "questions_served_for_analysis"),
                 None),
     current_subject |-> DictGet(session, "current_subject", None),
     current_subtopic |-> DictGet(session, "current_subtopic", None)]

(***************************************************************************)
(* ProgressService: clearing.                                              *)
(***************************************************************************)
\* The session keys clear_session_data removes.
keys_to_remove(sess, subject, subtopic) ==
    {key \in DOMAIN sess : startswith(key, subject \o "_" \o subtopic)}

clear_session_data(subject, subtopic) ==
    LET removed == keys_to_remove(session, subject, subtopic)
        completed_key == get_session_key(subject, subtopic, "completed_lessons")
        watched_key == get_session_key(subject, subtopic, "watched_videos")
    IN /\ session' = [k \in DOMAIN session \ removed |-> session[k]]
       /\ test_completed_lessons' = DictPop(test_completed_lessons, completed_key)
       /\ test_watched_videos' = DictPop(test_watched_videos, watched_key)
       /\ ret' = "None"
       /\ UNCHANGED test_admin_override

clear_all_session_data ==
    /\ session' = EmptyDict
    /\ test_completed_lessons' = EmptyDict
    /\ test_watched_videos' = EmptyDict
    /\ test_admin_override' = FALSE
    /\ ret' = "None"

(***************************************************************************)
(* DataService.get_video_data and the prerequisite checks.                 *)
(***************************************************************************)
\* {**base, **over}
Merge(base, over) ==
    [k \in DOMAIN base \cup DOMAIN over |->
        IF k \in DOMAIN over THEN over[k] ELSE base[k]]

\* A mapping item without its mapping key: the mapped value.
ValueOf(item) == [k \in DOMAIN item \ {"key"} |-> item[k]]

\* get_video_data(subject, subtopic)["videos"]: the normalised list.
get_video_data(subject, subtopic) ==
    LET payload == load_videos(subject, subtopic)
        items == payload.items
    IN [index \in 1..Len(items) |->
           IF payload.kind = "dict"
           THEN Merge([id |-> items[index].key], ValueOf(items[index]))
           ELSE LET video == items[index]
                    candidate_id == Or(Or(Get(video, "id"), Get(video, "video_id")),
                                       Get(video, "topic_key"))
                    video_id == Or(candidate_id, "video_" \o ToString(index))
                IN Merge([id |-> video_id], video)]

\* The keys of a dict built from the ids in order: each id once, at its first place.
RECURSIVE UniqueInOrder(_)
UniqueInOrder(ids) ==
    IF ids = <<>> THEN <<>>
    ELSE LET rest == UniqueInOrder(SubSeq(ids, 1, Len(ids) - 1))
             lastId == ids[Len(ids)]
         IN IF InList(lastId, rest) THEN rest ELSE Append(rest, lastId)

\* A plausible slip: a dimension without items is never complete.
dimension_complete_nonvacuous(ids, missing) == ids # <<>> /\ Len(missing) = 0

\* lessons_complete / videos_complete: len(missing) == 0 if ids else True
dimension_complete(ids, missing) == IF ids # <<>> THEN Len(missing) = 0 ELSE TRUE

_collect_subtopic_content_status(subject, subtopic, ctx) ==
    LET raw_lessons == load_lesson_plans(subject, subtopic)
        items == raw_lessons.items
        lesson_id_at(index) ==
            IF raw_lessons.kind = "dict" THEN items[index].key
            ELSE Or(Get(items[index], "id"), "lesson_" \o ToString(index))
        lesson_value_at(index) ==
            IF raw_lessons.kind = "dict" THEN ValueOf(items[index])
            ELSE items[index]
        lesson_ids == UniqueInOrder([index \in 1..Len(items) |-> lesson_id_at(index)])
        \* lesson_titles[lesson_id]: a dict comprehension keeps the last item's title
        lesson_title(lesson_id) ==
            LET last == CHOOSE index \in 1..Len(items) :
                            /\ lesson_id_at(index) = lesson_id
                            /\ \A other \in (index + 1)..Len(items) :
                                   lesson_id_at(other) # lesson_id
            IN IF "title" \in DOMAIN lesson_value_at(last)
               THEN lesson_value_at(last).title ELSE lesson_id
        completed_lessons == ToSet(get_completed_lessons(subject, subtopic, ctx))
        missing_lesson_ids == SelectSeq(lesson_ids, LAMBDA id : id \notin completed_lessons)
        missing_lessons ==
            [i \in 1..Len(missing_lesson_ids) |-> lesson_title(missing_lesson_ids[i])]
        raw_videos == get_video_data(subject, subtopic)
        video_id_at(index) ==
            Or(Get(raw_videos[index], "id"), "video_" \o ToString(index))
        video_ids == [index \in 1..Len(raw_videos) |-> video_id_at(index)]
        \* video_titles[video_id]: the title of the last video with this id
        video_title(video_id) ==
            LET last == CHOOSE index \in 1..Len(raw_videos) :
                            /\ video_id_at(index) = video_id
                            /\ \A other \in (index + 1)..Len(raw_videos) :
                                   video_id_at(other) # video_id
            IN IF "title" \in DOMAIN raw_videos[last]
               THEN raw_videos[last].title ELSE video_id
        watched_videos == ToSet(get_watched_videos(subject, subtopic, ctx))
        missing_video_ids == SelectSeq(video_ids, LAMBDA id : id \notin watched_videos)
        missing_videos ==
            [i \in 1..Len(missing_video_ids) |-> video_title(missing_video_ids[i])]
        lessons_complete == dimension_complete(lesson_ids, missing_lessons)
        videos_complete == dimension_complete(video_ids, missing_videos)
    IN [lesson_ids |-> lesson_ids,
        video_ids |-> video_ids,
        missing_lessons |-> missing_lessons,
        missing_videos |-> missing_videos,
        lessons_complete |-> lessons_complete,
        videos_complete |-> videos_complete,
        missing_items |->
            [i \in 1..Len(missing_lessons) |-> "Complete lesson: " \o missing_lessons[i]]
            \o [i \in 1..Len(missing_videos) |-> "Watch video: " \o missing_videos[i]],
        lessons_completed |-> Len(lesson_ids) - Len(missing_lessons),
        videos_watched |-> Len(video_ids) - Len(missing_videos),
        total_lessons |-> Len(lesson_ids),
        total_videos |-> Len(video_ids),
        all_content_complete |-> lessons_complete /\ videos_complete]

\* A plausible slip: the override is consulted only when content is complete.
quiz_all_met_no_bypass(admin_override, all_content_complete) ==
    admin_override /\ all_content_complete

\* all_met = admin_override or status["all_content_complete"]
quiz_all_met(admin_override, all_content_complete) ==
    admin_override \/ all_content_complete

check_quiz_prerequisites(subject, subtopic, ctx) ==
    LET status == _collect_subtopic_content_status(subject, subtopic, ctx)
        admin_override == get_admin_override_status(ctx)
        all_met == quiz_all_met(admin_override, status.all_content_complete)
    IN [subject |-> subject,
        subtopic |-> subtopic,
        has_prerequisites |-> status.total_lessons # 0 \/ status.total_videos # 0,
        lessons_complete |-> status.lessons_complete,
        lesson_total |-> status.total_lessons,
        lessons_completed |-> status.lessons_completed,
        videos_complete |-> status.videos_complete,
        videos_total |-> status.total_videos,
        videos_watched |-> status.videos_watched,
        missing_items |-> status.missing_items,
        missing_lessons |-> status.missing_lessons,
        missing_videos |-> status.missing_videos,
        admin_override |-> admin_override,
        all_met |-> all_met,
        can_take_quiz |-> all_met,
        prerequisites_met |-> all_met]

\* The loop of check_subtopic_prerequisites over prerequisite_ids: the details
\* and the missing ids gathered so far.
RECURSIVE prerequisite_loop(_, _, _, _, _, _)
prerequisite_loop(subject, subtopics_config, prerequisite_ids, details, missing_ids, ctx) ==
    IF prerequisite_ids = <<>>
    THEN [prerequisite_details |-> details, missing_ids |-> missing_ids]
    ELSE LET prereq_id == Head(prerequisite_ids)
             rest == Tail(prerequisite_ids)
         IN IF prereq_id \notin DOMAIN subtopics_config
            THEN prerequisite_loop(
                     subject, subtopics_config, rest,
                     Append(details,
                            [id |-> prereq_id, is_complete |-> FALSE,
                             reason |-> "not_found", lesson_total |-> 0,
                             lessons_completed |-> 0, video_total |-> 0,
                             videos_watched |-> 0]),
                     Append(missing_ids, prereq_id), ctx)
            ELSE LET progress ==
                         _collect_subtopic_content_status(subject, prereq_id, ctx)
                     is_complete == progress.all_content_complete
                 IN prerequisite_loop(
                        subject, subtopics_config, rest,
                        Append(details,
                               [id |-> prereq_id, is_complete |-> is_complete,
                                lesson_total |-> progress.total_lessons,
                                lessons_completed |-> progress.lessons_completed,
                                video_total |-> progress.total_videos,
                                videos_watched |-> progress.videos_watched]),
                        IF ~is_complete THEN Append(missing_ids, prereq_id)
                        ELSE missing_ids,
                        ctx)

\* A plausible slip: only the first missing prerequisite blocks access.
subtopic_prerequisites_met_first_only(admin_override, missing_ids) ==
    admin_override \/ Len(missing_ids) <= 1

\* prerequisites_met = admin_override or not missing_ids
subtopic_prerequisites_met(admin_override, missing_ids) ==
    admin_override \/ missing_ids = <<>>

\* The display names (missing_prerequisites, a detail's name) and the
\* redirect_url of the result are presentation only and are left out.
check_subtopic_prerequisites(subject, subtopic, ctx) ==
    LET subtopics_config == load_subject_config(subject)
        target_config == DictGet(subtopics_config, subtopic, EmptyDict)
        configured_prereqs == DictGet(target_config, "prerequisites", <<>>)
        prerequisite_ids ==
            SelectSeq(configured_prereqs,
                      LAMBDA prereq : prereq # None /\ strip(prereq) # "")
        admin_override == get_admin_override_status(ctx)
        looped == prerequisite_loop(subject, subtopics_config, prerequisite_ids,
                                    <<>>, <<>>, ctx)
        missing_ids == looped.missing_ids
        prerequisites_met == subtopic_prerequisites_met(admin_override, missing_ids)
    IN [subject |-> subject,
        subtopic |-> subtopic,
        has_prerequisites |-> prerequisite_ids # <<>>,
        admin_override |-> admin_override,
        prerequisite_ids |-> prerequisite_ids,
        prerequisite_details |-> looped.prerequisite_details,
        missing_prerequisite_ids |-> missing_ids,
        completed_prerequisites |-> Len(prerequisite_ids) - Len(missing_ids),
        total_prerequisites |-> Len(prerequisite_ids),
        can_access_subtopic |-> prerequisites_met,
        prerequisites_met |-> prerequisites_met]

(***************************************************************************)
(* quiz_analysis_utils: tags, scoring and the rule-based analysis.         *)
(* A question is a record of its JSON fields; its "tags" is a list whose   *)
(* non-string entries are written None, its "topic" a single string.       *)
(***************************************************************************)
\* [i \in 1..n |-> i]
Indices(n) == [i \in 1..n |-> i]

\* The lists of a list, concatenated in order.
RECURSIVE Flatten(_)
Flatten(lists) ==
    IF lists = <<>> THEN <<>> ELSE Head(lists) \o Flatten(Tail(lists))

\* sep.join(parts)
RECURSIVE join(_, _)
join(sep, parts) ==
    IF parts = <<>> THEN ""
    ELSE IF Len(parts) = 1 THEN parts[1]
    ELSE parts[1] \o sep \o join(sep, Tail(parts))

\* text.split(sep) for a one-character separator
RECURSIVE split(_, _)
split(text, sep) ==
    IF \A i \in 1..Len(text) : CharAt(text, i) # sep THEN <<text>>
    ELSE LET at == CHOOSE i \in 1..Len(text) :
                       /\ CharAt(text, i) = sep
                       /\ \A h \in 1..(i - 1) : CharAt(text, h) # sep
         IN <<SubSeq(text, 1, at - 1)>> \o split(SubSeq(text, at + 1, Len(text)), sep)

\* DataService.get_subject_allowed_tags: the configured entries that are strings.
get_subject_allowed_tags(subject) ==
    IF subject \in DOMAIN allowed_tags_config
    THEN SelectSeq(allowed_tags_config[subject], LAMBDA tag : tag # None)
    ELSE <<>>

\* What _get_allowed_tags computes on a cache miss.
NormalizedAllowedTags(subject) ==
    LET tags == get_subject_allowed_tags(subject)
        kept == SelectSeq(tags, LAMBDA tag : strip(tag) # "")
    IN [i \in 1..Len(kept) |-> strip(kept[i])]

\* _get_allowed_tags(subject, data_service), with a data service given.
_get_allowed_tags(subject) ==
    IF subject = "" THEN <<>>
    ELSE IF lower(subject) \in DOMAIN allowed_tag_cache
    THEN allowed_tag_cache[lower(subject)]
    ELSE NormalizedAllowedTags(subject)

\* _ALLOWED_TAG_CACHE after _get_allowed_tags(subject, data_service).
AllowedTagCacheAfter(subject) ==
    IF subject = "" \/ lower(subject) \in DOMAIN allowed_tag_cache
    THEN allowed_tag_cache
    ELSE DictSet(allowed_tag_cache, lower(subject), NormalizedAllowedTags(subject))

resolve_correct_answer(question) ==
    IF Get(question, "correct_answer") # None THEN question.correct_answer
    ELSE IF Get(question, "answer") # None THEN question.answer
    ELSE IF /\ "answer_index" \in DOMAIN question
            /\ "options" \in DOMAIN question
            /\ 0 <= question.answer_index
            /\ question.answer_index < Len(question.options)
    THEN question.options[question.answer_index + 1]
    ELSE LET acceptable ==
                 IF "acceptable_answers" \in DOMAIN question
                        /\ question.acceptable_answers # <<>>
                 THEN question.acceptable_answers
                 ELSE IF "correct_answers" \in DOMAIN question
                 THEN question.correct_answers ELSE <<>>
         IN IF acceptable # <<>> THEN acceptable[1] ELSE ""

\* [f(part) for part in parts if part.strip()] with f = strip then lower
StrippedLower(parts) ==
    LET kept == SelectSeq(parts, LAMBDA part : strip(part) # "")
    IN [i \in 1..Len(kept) |-> lower(strip(kept[i]))]

\* A plausible slip: the test for a blank answer is left out.
is_answer_correct_without_blank_test(question, user_answer) ==
    LET question_type ==
            lower(strip(IF "type" \in DOMAIN question THEN question.type
                        ELSE "multiple_choice"))
        answer_text == resolve_correct_answer(question)
        user_clean == strip(IF user_answer = None THEN "" ELSE user_answer)
        raw_list == IF "correct_answers" \in DOMAIN question
                           /\ question.correct_answers # <<>>
                    THEN question.correct_answers
                    ELSE IF "acceptable_answers" \in DOMAIN question
                    THEN question.acceptable_answers ELSE <<>>
        acceptable ==
            (IF answer_text # "" THEN StrippedLower(split(answer_text, ",")) ELSE <<>>)
                \o StrippedLower(raw_list)
    IN IF question_type = "multiple_choice" THEN user_clean = strip(answer_text)
       ELSE IF question_type = "fill_in_the_blank"
       THEN acceptable # <<>> /\ InList(lower(user_clean), acceptable)
       ELSE IF question_type = "coding" THEN FALSE
       ELSE lower(user_clean) = lower(strip(answer_text))

\* A plausible slip: multiple choice is compared without regard to case.
is_answer_correct_ignoring_case(question, user_answer) ==
    LET question_type ==
            lower(strip(IF "type" \in DOMAIN question THEN question.type
                        ELSE "multiple_choice"))
        answer_text == resolve_correct_answer(question)
        user_clean == strip(IF user_answer = None THEN "" ELSE user_answer)
        raw_list == IF "correct_answers" \in DOMAIN question
                           /\ question.correct_answers # <<>>
                    THEN question.correct_answers
                    ELSE IF "acceptable_answers" \in DOMAIN question
                    THEN question.acceptable_answers ELSE <<>>
        acceptable ==
            (IF answer_text # "" THEN StrippedLower(split(answer_text, ",")) ELSE <<>>)
                \o StrippedLower(raw_list)
    IN IF user_clean = "" THEN FALSE
       ELSE IF question_type = "multiple_choice" THEN lower(user_clean) = lower(strip(answer_text))
       ELSE IF question_type = "fill_in_the_blank"
       THEN acceptable # <<>> /\ InList(lower(user_clean), acceptable)
       ELSE IF question_type = "coding" THEN FALSE
       ELSE lower(user_clean) = lower(strip(answer_text))

\* A plausible slip: the multiple-choice answer is compared untrimmed.
is_answer_correct_untrimmed_choice(question, user_answer) ==
    LET question_type ==
            lower(strip(IF "type" \in DOMAIN question THEN question.type
                        ELSE "multiple_choice"))
        answer_text == resolve_correct_answer(question)
        user_clean == strip(IF user_answer = None THEN "" ELSE user_answer)
        raw_list == IF "correct_answers" \in DOMAIN question
                           /\ question.correct_answers # <<>>
                    THEN question.correct_answers
                    ELSE IF "acceptable_answers" \in DOMAIN question
                    THEN question.acceptable_answers ELSE <<>>
        acceptable ==
            (IF answer_text # "" THEN StrippedLower(split(answer_text, ",")) ELSE <<>>)
                \o StrippedLower(raw_list)
    IN IF user_clean = "" THEN FALSE
       ELSE IF question_type = "multiple_choice" THEN user_clean = answer_text
       ELSE IF question_type = "fill_in_the_blank"
       THEN acceptable # <<>> /\ InList(lower(user_clean), acceptable)
       ELSE IF question_type = "coding" THEN FALSE
       ELSE lower(user_clean) = lower(strip(answer_text))

is_answer_correct(question, user_answer) ==
    LET question_type ==
            lower(strip(IF "type" \in DOMAIN question THEN question.type
                        ELSE "multiple_choice"))
        answer_text == resolve_correct_answer(question)
        user_clean == strip(IF user_answer = None THEN "" ELSE user_answer)
        raw_list == IF "correct_answers" \in DOMAIN question
                           /\ question.correct_answers # <<>>
                    THEN question.correct_answers
                    ELSE IF "acceptable_answers" \in DOMAIN question
                    THEN question.acceptable_answers ELSE <<>>
        acceptable ==
            (IF answer_text # "" THEN StrippedLower(split(answer_text, ",")) ELSE <<>>)
                \o StrippedLower(raw_list)
    IN IF user_clean = "" THEN FALSE
       ELSE IF question_type = "multiple_choice" THEN user_clean = strip(answer_text)
       ELSE IF question_type = "fill_in_the_blank"
       THEN acceptable # <<>> /\ InList(lower(user_clean), acceptable)
       ELSE IF question_type = "coding" THEN FALSE
       ELSE lower(user_clean) = lower(strip(answer_text))

collect_question_tags(question) ==
    (IF "tags" \in DOMAIN question
     THEN SelectSeq(question.tags, LAMBDA tag : tag # None) ELSE <<>>)
        \o (IF "topic" \in DOMAIN question THEN <<question.topic>> ELSE <<>>)

\* The loop of normalize_tags: trim, drop blanks and non-strings, drop
\* case-insensitive repeats.
RECURSIVE normalize_tags_loop(_, _, _)
normalize_tags_loop(tags, normalized, seen) ==
    IF tags = <<>> THEN normalized
    ELSE LET tag == Head(tags)
             cleaned == strip(tag)
             key == lower(cleaned)
         IN IF tag = None \/ cleaned = "" \/ key \in seen
            THEN normalize_tags_loop(Tail(tags), normalized, seen)
            ELSE normalize_tags_loop(Tail(tags), Append(normalized, cleaned),
                                     seen \cup {key})

\* A plausible slip: the first-seen spelling of a repeated tag is replaced by
\* the last-seen one.
normalize_tags_keep_last(tags) ==
    LET kept == SelectSeq(tags, LAMBDA tag : tag # None /\ strip(tag) # "")
        cleaned == [i \in 1..Len(kept) |-> strip(kept[i])]
        finals == SelectSeq(Indices(Len(cleaned)),
                            LAMBDA i : \A later \in (i + 1)..Len(cleaned) :
                                           lower(cleaned[later]) # lower(cleaned[i]))
    IN [k \in 1..Len(finals) |-> cleaned[finals[k]]]

normalize_tags(tags) == normalize_tags_loop(tags, <<>>, {})

\* {str(tag).lower(): str(tag) for tag in allowed_tags}: a later tag replaces an
\* earlier one with the same key.
AllowedLookup(allowed_tags) ==
    [key \in {lower(allowed_tags[i]) : i \in 1..Len(allowed_tags)} |->
        allowed_tags[CHOOSE i \in 1..Len(allowed_tags) :
                         /\ lower(allowed_tags[i]) = key
                         /\ \A later \in (i + 1)..Len(allowed_tags) :
                                lower(allowed_tags[later]) # key]]

\* The loop of filter_allowed_tags over a non-empty lookup.
RECURSIVE filter_allowed_tags_loop(_, _, _, _)
filter_allowed_tags_loop(tags, allowed_lookup, filtered, seen) ==
    IF tags = <<>> THEN filtered
    ELSE LET tag == Head(tags)
             cleaned == strip(tag)
             key == lower(cleaned)
         IN IF tag = None \/ cleaned = "" \/ key \notin DOMAIN allowed_lookup
                  \/ key \in seen
            THEN filter_allowed_tags_loop(Tail(tags), allowed_lookup, filtered, seen)
            ELSE filter_allowed_tags_loop(Tail(tags), allowed_lookup,
                                          Append(filtered, allowed_lookup[key]),
                                          seen \cup {key})

filter_allowed_tags(tags, allowed_lookup) ==
    IF DOMAIN allowed_lookup = {} THEN normalize_tags(tags)
    ELSE filter_allowed_tags_loop(tags, allowed_lookup, <<>>, {})

_apply_rule_based_topics(question, is_correct, detected_tags) ==
    IF is_correct THEN detected_tags
    ELSE LET question_type ==
                 lower(strip(IF "type" \in DOMAIN question THEN question.type ELSE ""))
         IN detected_tags
                \o (IF question_type = "coding" THEN <<"programming logic">> ELSE <<>>)
                \o (IF "difficulty" \in DOMAIN question
                        /\ lower(question.difficulty) = "advanced"
                    THEN <<"advanced practice">> ELSE <<>>)

\* Values the analysis carries whose JSON type is open (the LLM's feedback
\* can be of any JSON type): the type, the text of a scalar, the entries of
\* a list or the keys of an object.
JStr(text) == [t |-> "str", s |-> text, items |-> <<>>]
JNum(text) == [t |-> "num", s |-> text, items |-> <<>>]
JBool(text) == [t |-> "bool", s |-> text, items |-> <<>>]
JNull == [t |-> "null", s |-> "", items |-> <<>>]
JList(entries) == [t |-> "list", s |-> "", items |-> entries]
JObj(keys) == [t |-> "obj", s |-> "", items |-> keys]

\* bool(value)
JTruthy(value) ==
    CASE value.t = "null" -> FALSE
      [] value.t = "str" -> value.s # ""
      [] value.t = "num" -> value.s # "0"
      [] value.t = "bool" -> value.s = "true"
      [] OTHER -> value.items # <<>>

\* parsed.get(field)
JGet(obj, field) == IF field \in DOMAIN obj THEN obj[field] ELSE JNull

\* a or b
JOr(a, b) == IF JTruthy(a) THEN a ELSE b

\* A plausible slip: int() of the quotient, without round().
TruncatedPercentage(numerator, denominator) == (numerator * 100) \div denominator

\* int(round(numerator / denominator * 100)): round() takes a tie to the even side
RoundedPercentage(numerator, denominator) ==
    LET scaled == numerator * 100
        quotient == scaled \div denominator
        twice == 2 * (scaled % denominator)
    IN IF twice < denominator THEN quotient
       ELSE IF twice > denominator THEN quotient + 1
       ELSE IF quotient % 2 = 0 THEN quotient ELSE quotient + 1

\* weak_topics[:5]
FirstFive(list) == SubSeq(list, 1, IF Len(list) < 5 THEN Len(list) ELSE 5)

\* (The dash of the third message is written as a colon.)
_generate_basic_feedback(score_percentage, weak_topics) ==
    LET base ==
            IF score_percentage >= 85
            THEN "Excellent work! You're mastering this material."
            ELSE IF score_percentage >= 70
            THEN "Great job! A little more practice will make these concepts stick."
            ELSE IF score_percentage >= 50
            THEN "Good effort: target the topics below to boost your understanding."
            ELSE "Let's reinforce the fundamentals. Review the weak areas highlighted below."
    IN IF weak_topics # <<>>
       THEN base \o " Focus on: " \o join(", ", FirstFive(weak_topics)) \o "."
       ELSE base

\* compute_basic_quiz_analysis with a data service; the submission details
\* and their preview (text for display) are left out of the result.
compute_basic_quiz_analysis(questions, answers, subject, subtopic) ==
    LET total_questions == Len(questions)
        user_answer(i) ==
            IF i <= Len(answers) /\ answers[i] # None THEN answers[i] ELSE ""
        wrong == SelectSeq(Indices(total_questions),
                           LAMBDA i : ~is_answer_correct(questions[i], user_answer(i)))
        correct_answers == total_questions - Len(wrong)
        enriched_tags(i) ==
            _apply_rule_based_topics(questions[i], FALSE,
                                     collect_question_tags(questions[i]))
        wrong_tag_candidates == Flatten([k \in 1..Len(wrong) |-> enriched_tags(wrong[k])])
        weak_topic_details ==
            [k \in 1..Len(wrong) |->
                [question_index |-> wrong[k] - 1,
                 tags |-> normalize_tags(enriched_tags(wrong[k]))]]
        percentage == IF total_questions # 0
                      THEN RoundedPercentage(correct_answers, total_questions) ELSE 0
        allowed_tags == _get_allowed_tags(subject)
        allowed_lookup == AllowedLookup(allowed_tags)
        filtered == filter_allowed_tags(wrong_tag_candidates, allowed_lookup)
        filtered_tags == IF filtered = <<>> THEN normalize_tags(wrong_tag_candidates)
                         ELSE filtered
        feedback_message == _generate_basic_feedback(percentage, filtered_tags)
    IN [score |-> [correct |-> correct_answers, total |-> total_questions,
                   percentage |-> percentage],
        weak_topics |-> filtered_tags,
        weak_tags |-> filtered_tags,
        weak_areas |-> filtered_tags,
        feedback |-> JStr(feedback_message),
        ai_analysis |-> JStr(""),
        recommendations |-> <<>>,
        wrong_question_indices |-> [k \in 1..Len(wrong) |-> wrong[k] - 1],
        allowed_tags |-> allowed_tags,
        used_ai |-> FALSE,
        analysis_stage |-> "basic",
        basic_feedback |-> feedback_message,
        rule_based_insights |-> weak_topic_details,
        subject |-> subject,
        subtopic |-> subtopic]

(***************************************************************************)
(* AIService: the enrichment of the rule-based analysis.                   *)
(* A response of the LLM call is its form and, where the text holds a JSON *)
(* object, the object: field -> value.                                     *)
(***************************************************************************)
\* call_openai_api returned None: not reachable, timeout, retries used up.
NoResponse == [form |-> "none", payload |-> EmptyDict]

is_available == api_key # None

\* _extract_json_object: json.loads of the whole text gives the object; a
\* text that is no JSON object is searched for "{...}", which finds the
\* object inside prose or inside an array.
_extract_json_object(response_text) ==
    IF response_text.form \in {"none", "empty"}
    THEN [found |-> FALSE, object |-> EmptyDict]
    ELSE IF response_text.form \in {"object", "object_in_prose", "object_in_array"}
    THEN [found |-> TRUE, object |-> response_text.payload]
    ELSE [found |-> FALSE, object |-> EmptyDict]

_generate_recommendations(score, weak_areas) ==
    IF score >= 80
    THEN <<"Great job! You have a strong understanding of this topic.",
           "Consider advancing to more challenging topics.">>
    ELSE IF score >= 60
    THEN <<"Good progress! Focus on reviewing the areas you missed.">>
             \o (IF weak_areas # <<>>
                 THEN <<"Pay special attention to: " \o join(", ", weak_areas)>>
                 ELSE <<>>)
    ELSE <<"Consider reviewing the lesson materials before retaking the quiz.",
           "Practice exercises might help strengthen your understanding.">>
             \o (IF weak_areas # <<>>
                 THEN <<"Focus your study on: " \o join(", ", weak_areas)>>
                 ELSE <<>>)

\* _build_cache_key: the SHA-1 of the payload, written as the payload.
_build_cache_key(questions, answers, subject, subtopic) ==
    <<subject, subtopic,
      [i \in 1..Len(questions) |->
          Or(Or(Get(questions[i], "id"), Get(questions[i], "question_id")),
             IF "question" \in DOMAIN questions[i] THEN questions[i].question
             ELSE ToString(i - 1))],
      answers>>

\* The fields _set_cached_analysis stores for an enhanced analysis.
CachedFields(an) ==
    [k \in {"weak_topics", "weak_tags", "weak_areas", "feedback", "ai_analysis",
            "used_ai", "analysis_stage", "raw_ai_response"} |-> an[k]]

\* What iterating the LLM's weak_concept_tags raises: "for tag in tags" over
\* a number or a boolean is a TypeError.
Raised == [raised |-> "TypeError"]

\* validated_tags = filter_allowed_tags(...); if not validated_tags: fallback_tags
enhanced_weak_topics(validated_tags, fallback_tags) ==
    IF validated_tags = <<>> THEN fallback_tags ELSE validated_tags

\* The end of analyze_quiz_performance: recommendations are generated when
\* the analysis has none.
with_recommendations(an) ==
    IF an.recommendations = <<>>
    THEN Merge(an, [recommendations |->
                        _generate_recommendations(an.score.percentage, an.weak_topics)])
    ELSE an

\* analyze_quiz_performance from "if ai_response:" on: the response is
\* parsed and its tags validated, or the fallback tags are kept.
apply_ai_response(an, ai_response, allowed_lookup, fallback_tags) ==
    LET parsed_response == _extract_json_object(ai_response)
        parsed == parsed_response.object
        given_tags == JOr(JGet(parsed, "weak_concept_tags"), JList(<<>>))
        candidate_tags == IF given_tags.t = "str" THEN JList(<<given_tags.s>>)
                          ELSE given_tags
        feedback == JOr(JOr(JGet(parsed, "detailed_feedback"), JGet(parsed, "feedback")),
                        JOr(an.feedback, JStr("")))
    IN IF parsed_response.found /\ DOMAIN parsed # {}
       THEN IF candidate_tags.t \notin {"list", "obj"}
            THEN Raised
            ELSE LET weak == enhanced_weak_topics(
                                 filter_allowed_tags(candidate_tags.items, allowed_lookup),
                                 fallback_tags)
                 IN with_recommendations(
                        Merge(an, [weak_topics |-> weak, weak_tags |-> weak,
                                   weak_areas |-> weak,
                                   feedback |-> feedback, ai_analysis |-> feedback,
                                   used_ai |-> TRUE, analysis_stage |-> "enhanced"]))
       ELSE with_recommendations(
                Merge(an, [weak_topics |-> fallback_tags, weak_tags |-> fallback_tags,
                           weak_areas |-> fallback_tags]))

\* A plausible slip: the entry under the key is updated field by field and
\* an empty tag list does not replace a stored one.
_set_cached_analysis_updating(cache, cache_key, entry) ==
    DictSet(cache, cache_key,
            [k \in DOMAIN entry |->
                IF /\ cache_key \in DOMAIN cache
                   /\ k \in {"weak_topics", "weak_tags", "weak_areas"}
                   /\ entry[k] = <<>>
                THEN cache[cache_key][k] ELSE entry[k]])

\* _set_cached_analysis inside the lock: self._analysis_cache[cache_key] = analysis
_set_cached_analysis(cache, cache_key, entry) == DictSet(cache, cache_key, entry)

\* The analysis returned, and the cache after _set_cached_analysis.
returned_and_cached(an, cache_key) ==
    [analysis |-> an,
     cache |-> IF "used_ai" \in DOMAIN an /\ an.used_ai
               THEN _set_cached_analysis(analysis_cache, cache_key, CachedFields(an))
               ELSE analysis_cache]

\* fallback_tags of analyze_quiz_performance.
fallback_tags_of(base_analysis, wrong_tag_candidates, allowed_lookup) ==
    IF base_analysis.weak_tags # <<>> THEN base_analysis.weak_tags
    ELSE IF base_analysis.weak_topics # <<>> THEN base_analysis.weak_topics
    ELSE enhanced_weak_topics(filter_allowed_tags(wrong_tag_candidates, allowed_lookup),
                              normalize_tags(wrong_tag_candidates))

\* The allowed tags analyze_quiz_performance works with.
analysis_allowed_tags(base_analysis, subject) ==
    IF base_analysis.allowed_tags # <<>> THEN base_analysis.allowed_tags
    ELSE get_subject_allowed_tags(subject)

\* analyze_quiz_performance after the cache was missed and call_openai_api
\* returned ai_response, up to the write of the cache.
analysis_after_miss(base_analysis, subject, ai_response) ==
    LET allowed_tags == analysis_allowed_tags(base_analysis, subject)
        wrong_tag_candidates ==
            Flatten([k \in 1..Len(base_analysis.rule_based_insights) |->
                        base_analysis.rule_based_insights[k].tags])
    IN apply_ai_response(
           Merge(base_analysis,
                 [allowed_tags |-> allowed_tags,
                  raw_ai_response |-> ai_response,
                  missed_tags |-> normalize_tags(wrong_tag_candidates)]),
           ai_response,
           AllowedLookup(allowed_tags),
           fallback_tags_of(base_analysis, wrong_tag_candidates,
                            AllowedLookup(allowed_tags)))

\* analyze_quiz_performance once base_analysis is there.
analyze_from_base(base_analysis, cache_key, subject, ai_response) ==
    LET allowed_tags == analysis_allowed_tags(base_analysis, subject)
    IN IF cache_key \in DOMAIN analysis_cache
       THEN [analysis |-> Merge(Merge(base_analysis, [allowed_tags |-> allowed_tags]),
                                analysis_cache[cache_key]),
             cache |-> analysis_cache]
       ELSE IF ~is_available
       THEN [analysis |-> Merge(base_analysis, [allowed_tags |-> allowed_tags]),
             cache |-> analysis_cache]
       ELSE returned_and_cached(
                analysis_after_miss(base_analysis, subject, ai_response),
                cache_key)

\* analyze_quiz_performance(questions, answers, subject, subtopic) with no
\* base analysis given, when the LLM call (if made) returns ai_response:
\* what the call returns or raises, and the analysis cache after it.
analyze_quiz_performance(questions, answers, subject, subtopic, ai_response) ==
    analyze_from_base(
        compute_basic_quiz_analysis(questions, answers, subject, subtopic),
        _build_cache_key(questions, answers, subject, subtopic),
        subject, ai_response)

(***************************************************************************)
(* The progress tracker as a state machine: one learner's session and the  *)
(* process-wide fallback stores, changed by the ProgressService calls.     *)
(***************************************************************************)
\* What the callers hand to the quiz-record setters.
WeakTopicInputs == {<<"loops">>, <<" Loops", "loops", "", "If ">>}

SampleQuestions ==
    <<[id |-> "q1", question |-> "What is a loop?", type |-> "multiple_choice",
       correct_answer |-> "x", tags |-> <<"loops">>]>>

SampleAnalysis ==
    [score |-> [correct |-> 0, total |-> 1, percentage |-> 0],
     weak_topics |-> <<"loops">>,
     used_ai |-> FALSE,
     submission_details |-> <<"Question 1", "Status: Incorrect">>,
     wrong_question_indices |-> <<0>>]

\* No submission, and no analysis result yet.
NoQuiz == [questions |-> <<>>, answers |-> <<>>, subject |-> "", subtopic |-> ""]
NoAnalysis == [analysis_stage |-> "none"]

\* The allowed tags the content store configures when a run does not vary them.
DefaultAllowedTags == [subject \in Subjects |-> IF subject = "py" THEN <<"loops", "if">> ELSE <<>>]

\* The analysis part of the state when no analysis has run.
AnalysisIdle ==
    /\ quiz = NoQuiz
    /\ analysis = NoAnalysis
    /\ analysis_cache = EmptyDict
    /\ api_key = None
    /\ allowed_tags_config = DefaultAllowedTags
    /\ allowed_tag_cache = EmptyDict

\* No route has been called: no pool is read and nothing was returned.
NoRouteResponse == [status |-> 0]

FlowIdle ==
    /\ question_pool = <<>>
    /\ response = NoRouteResponse

Init ==
    /\ session = EmptyDict
    /\ test_completed_lessons = EmptyDict
    /\ test_watched_videos = EmptyDict
    /\ test_admin_override = FALSE
    /\ ret = "None"
    /\ AnalysisIdle
    /\ FlowIdle

MarkLessonComplete ==
    \E p \in Pairs, lesson_id \in LessonItemIds, ctx \in BOOLEAN :
        /\ StoredEntries < MaxStored
        /\ mark_lesson_complete(p[1], p[2], lesson_id, ctx)
        /\ UNCHANGED <<analysisVars, flowVars>>

MarkVideoComplete ==
    \E p \in Pairs, video_id \in VideoItemIds, ctx \in BOOLEAN :
        /\ StoredEntries < MaxStored
        /\ mark_video_complete(p[1], p[2], video_id, ctx)
        /\ UNCHANGED <<analysisVars, flowVars>>

\* The ids a caller of update_progress names for an item type.
ItemIdsOf(item_type) ==
    IF item_type = "lesson" THEN LessonItemIds
    ELSE IF item_type = "video" THEN VideoItemIds
    ELSE LessonItemIds \cup VideoItemIds

UpdateProgress ==
    \E p \in Pairs, item_type \in {"lesson", "video", "quiz"}, ctx \in BOOLEAN :
      \E item_id \in ItemIdsOf(item_type) :
        /\ StoredEntries < MaxStored
        /\ update_progress(p[1], p[2], item_id, item_type, ctx)
        /\ UNCHANGED <<analysisVars, flowVars>>

SetWeakTopics ==
    \E p \in Pairs, topics \in WeakTopicInputs :
        /\ StoredEntries < MaxStored
        /\ set_weak_topics(p[1], p[2], topics)
        /\ UNCHANGED <<analysisVars, flowVars>>

StoreQuizAnalysis ==
    \E p \in Pairs :
        /\ StoredEntries < MaxStored
        /\ store_quiz_analysis(p[1], p[2], SampleAnalysis)
        /\ UNCHANGED <<analysisVars, flowVars>>

SetRemedialQuizData ==
    \E p \in Pairs, topics \in {None, <<"loops">>} :
        /\ StoredEntries < MaxStored
        /\ set_remedial_quiz_data(p[1], p[2], SampleQuestions, topics)
        /\ UNCHANGED <<analysisVars, flowVars>>

SetQuizSessionData ==
    \E p \in Pairs, quiz_type \in {"initial", "remedial"} :
        /\ StoredEntries < MaxStored
        /\ set_quiz_session_data(p[1], p[2], quiz_type, SampleQuestions)
        /\ UNCHANGED <<analysisVars, flowVars>>

ClearSessionData ==
    \E p \in Pairs :
        /\ clear_session_data(p[1], p[2])
        /\ UNCHANGED <<analysisVars, flowVars>>

ClearAllSessionData ==
    /\ clear_all_session_data
    /\ UNCHANGED <<analysisVars, flowVars>>

SetAdminOverride ==
    \E enabled \in BOOLEAN, ctx \in BOOLEAN :
        /\ set_admin_override(enabled, ctx)
        /\ UNCHANGED <<analysisVars, flowVars>>

ToggleAdminOverride ==
    \E ctx \in BOOLEAN :
        /\ toggle_admin_override(ctx)
        /\ UNCHANGED <<analysisVars, flowVars>>

\* set_admin_override called by a request handler.
SetAdminOverrideInRequest ==
    \E enabled \in BOOLEAN :
        /\ set_admin_override(enabled, TRUE)
        /\ UNCHANGED <<analysisVars, flowVars>>

\* Progress marking, the override and clearing: what the gates depend on.
Next ==
    \/ MarkLessonComplete
    \/ MarkVideoComplete
    \/ UpdateProgress
    \/ ClearSessionData
    \/ ClearAllSessionData
    \/ SetAdminOverride
    \/ ToggleAdminOverride

Spec == Init /\ [][Next]_vars

\* The per-pair records of one session: every writer, and clearing.
NextSession ==
    \/ MarkLessonComplete
    \/ MarkVideoComplete
    \/ SetWeakTopics
    \/ StoreQuizAnalysis
    \/ SetRemedialQuizData
    \/ SetQuizSessionData
    \/ ClearSessionData
    \/ SetAdminOverrideInRequest

SpecSession == Init /\ [][NextSession]_vars

(***************************************************************************)
(* Quiz analysis as a state machine: a submission is drawn at the start,   *)
(* and the analysis calls are applied to it with every outcome of the LLM  *)
(* call.                                                                   *)
(***************************************************************************)
\* A submission has from one to this many questions.
MaxQuestions == 2

QuestionPool ==
    {[id |-> "q1", type |-> "multiple_choice", correct_answer |-> "x",
      tags |-> <<"loops">>],
     [id |-> "q2", type |-> "fill_in_the_blank", correct_answer |-> "X, y",
      tags |-> <<" Loops", "recursion">>],
     [id |-> "q3", type |-> "coding", difficulty |-> "advanced", tags |-> <<"if">>]}

\* A blank answer and one that is right for q1 and q2.
AnswerInputs == {"", "x"}

\* What the subject can configure as its allowed tags.
VocabularyInputs == {<<>>, <<"Loops", " if ">>, <<"functions">>}

\* The question lists: distinct questions of the pool in any order.
QuestionLists ==
    UNION {{qs \in [1..n -> QuestionPool] : \A i, j \in 1..n : i # j => qs[i] # qs[j]} :
              n \in 1..MaxQuestions}

QuizInputs ==
    UNION {{[questions |-> qs, answers |-> as, subject |-> "py", subtopic |-> "a"] :
               as \in [1..Len(qs) -> AnswerInputs]} : qs \in QuestionLists}

\* The outcomes of the LLM call, by name.
LLMOutcomes ==
    {"none", "empty", "prose", "braces", "scalar", "empty_object", "tags_absent",
     "tags_null", "tags_empty", "tags_fabricated", "tags_mixed", "tags_reordered",
     "tags_string", "tags_number", "tags_true", "tags_object", "feedback_number",
     "feedback_list", "object_in_prose", "object_in_array"}

\* The response of each outcome.
LLMResponse(outcome) ==
    LET Object(payload) == [form |-> "object", payload |-> payload]
        advice == JStr("Review loops.")
    IN CASE outcome = "none" -> NoResponse
         [] outcome \in {"empty", "prose", "braces", "scalar"} ->
                [form |-> outcome, payload |-> EmptyDict]
         [] outcome = "empty_object" -> Object(EmptyDict)
         [] outcome = "tags_absent" -> Object([detailed_feedback |-> advice])
         [] outcome = "tags_null" ->
                Object([weak_concept_tags |-> JNull, detailed_feedback |-> advice])
         [] outcome = "tags_empty" ->
                Object([weak_concept_tags |-> JList(<<>>), detailed_feedback |-> advice])
         [] outcome = "tags_fabricated" ->
                Object([weak_concept_tags |-> JList(<<"pointers">>)])
         [] outcome = "tags_mixed" ->
                Object([weak_concept_tags |->
                            JList(<<"if", None, " LOOPS ", "loops", "pointers", "">>),
                        detailed_feedback |-> advice])
         [] outcome = "tags_reordered" ->
                Object([weak_concept_tags |-> JList(<<"functions", "recursion", "loops">>),
                        feedback |-> advice])
         [] outcome = "tags_string" -> Object([weak_concept_tags |-> JStr("loops")])
         [] outcome = "tags_number" ->
                Object([weak_concept_tags |-> JNum("5"), detailed_feedback |-> advice])
         [] outcome = "tags_true" -> Object([weak_concept_tags |-> JBool("true")])
         [] outcome = "tags_object" -> Object([weak_concept_tags |-> JObj(<<"if">>)])
         [] outcome = "feedback_number" ->
                Object([weak_concept_tags |-> JList(<<"loops">>),
                        detailed_feedback |-> JNum("7")])
         [] outcome = "feedback_list" ->
                Object([weak_concept_tags |-> JList(<<"loops">>),
                        detailed_feedback |-> JList(<<"a", "b">>)])
         [] outcome = "object_in_prose" ->
                [form |-> "object_in_prose",
                 payload |-> [weak_concept_tags |-> JList(<<"if">>)]]
         [] outcome = "object_in_array" ->
                [form |-> "object_in_array",
                 payload |-> [weak_concept_tags |-> JList(<<"loops">>),
                              detailed_feedback |-> JObj(<<"text">>)]]

InitAnalysis ==
    /\ session = EmptyDict
    /\ test_completed_lessons = EmptyDict
    /\ test_watched_videos = EmptyDict
    /\ test_admin_override = FALSE
    /\ ret = "None"
    /\ quiz \in QuizInputs
    /\ analysis = NoAnalysis
    /\ analysis_cache = EmptyDict
    /\ api_key \in {None, "sk-test"}
    /\ \E vocabulary \in VocabularyInputs :
           allowed_tags_config = [subject \in Subjects |->
                                     IF subject = "py" THEN vocabulary ELSE <<>>]
    /\ allowed_tag_cache = EmptyDict
    /\ FlowIdle

ComputeBasicQuizAnalysis ==
    /\ analysis' = compute_basic_quiz_analysis(quiz.questions, quiz.answers,
                                               quiz.subject, quiz.subtopic)
    /\ allowed_tag_cache' = AllowedTagCacheAfter(quiz.subject)
    /\ UNCHANGED <<progressVars, flowVars, quiz, analysis_cache, api_key,
                   allowed_tags_config>>

\* analyze_quiz_performance reaches call_openai_api: nothing is cached for
\* the submission and the service is available.
CallsLLM ==
    /\ _build_cache_key(quiz.questions, quiz.answers, quiz.subject, quiz.subtopic)
           \notin DOMAIN analysis_cache
    /\ is_available

AnalyzeQuizPerformance ==
    \E outcome \in (IF CallsLLM THEN LLMOutcomes ELSE {"none"}) :
      \E returned \in {analyze_quiz_performance(quiz.questions, quiz.answers,
                                                quiz.subject, quiz.subtopic,
                                                LLMResponse(outcome))} :
        /\ analysis' = returned.analysis
        /\ analysis_cache' = returned.cache
        /\ allowed_tag_cache' = AllowedTagCacheAfter(quiz.subject)
        /\ UNCHANGED <<progressVars, flowVars, quiz, api_key, allowed_tags_config>>

\* The lists a caller stores as weak topics: given lists, and the weak
\* topics of the analysis just made (as the /analyze route does).
TopicListInputs ==
    {<<" Loops", None, "loops", "", "If ", "if">>}
        \cup (IF "weak_topics" \in DOMAIN analysis THEN {analysis.weak_topics} ELSE {})

SetWeakTopicsOfQuiz ==
    \E topics \in TopicListInputs :
        /\ set_weak_topics(quiz.subject, quiz.subtopic, topics)
        /\ UNCHANGED <<analysisVars, flowVars>>

NextAnalysis ==
    \/ ComputeBasicQuizAnalysis
    \/ AnalyzeQuizPerformance
    \/ SetWeakTopicsOfQuiz

SpecAnalysis == InitAnalysis /\ [][NextAnalysis]_vars

(***************************************************************************)
(* Scoring as a state machine: a submission is drawn at the start, with    *)
(* questions of every shape and answers that are missing, None, blank or   *)
(* given; the answers are judged and the basic analysis is computed.       *)
(***************************************************************************)
\* The longest submission of one repeated question.
MaxScored == 8

\* Questions of every type and with every way of naming the correct answer.
JudgedQuestions ==
    {[id |-> "j1", type |-> "multiple_choice", correct_answer |-> " x ",
      tags |-> <<"loops">>],
     [id |-> "j2", type |-> " Multiple_Choice ", answer_index |-> 1,
      options |-> <<"a", "B">>, tags |-> <<>>],
     [id |-> "j3", type |-> "multiple_choice", tags |-> <<" ">>],
     [id |-> "j4", type |-> "fill_in_the_blank", correct_answer |-> "X, y,,",
      tags |-> <<"loops">>],
     [id |-> "j5", type |-> "fill_in_the_blank",
      acceptable_answers |-> <<"Foo,k", " bar ">>, tags |-> <<"if">>],
     [id |-> "j6", type |-> "Fill_In_The_Blank", answer |-> "z",
      correct_answers |-> <<"K", "">>, topic |-> "recursion"],
     [id |-> "j7", type |-> "coding", correct_answer |-> "x", tags |-> <<"if">>],
     [id |-> "j8", answer |-> "y", tags |-> <<None>>],
     [id |-> "j9", type |-> "fill_in_the_blank"],
     [id |-> "j11", type |-> "fill_in_the_blank", correct_answer |-> "x",
      correct_answers |-> <<"K">>, acceptable_answers |-> <<"z">>],
     [id |-> "j10", type |-> "short_answer", correct_answer |-> "B"],
     [id |-> "j12", type |-> "multiple_choice", correct_answer |-> "a, B"],
     [id |-> "j13", type |-> "essay", correct_answer |-> "a, B"]}

\* Raw answers: None, blank, and texts that match some question up to
\* whitespace or case.
JudgedAnswers ==
    {None, "", " ", "x", " x", "X", "B", "b", "y", " Y ", "foo", "Foo,k", "k", "bar", "z"}

\* Blank and given answers for the submissions of several questions.
BlankOrGiven == {None, "", " ", "x"}

\* The sequences over S of length at most n.
UpTo(S, n) == UNION {[1..m -> S] : m \in 0..n}

\* The submissions scored: one question of any shape with any answer or
\* none; questions of the pool with answers partly missing or blank; one
\* question repeated, answered right or not at all; one or two questions of
\* any shape, each answered with its resolved correct answer.
ScoringInputs ==
    LET Submission(qs, as) ==
            [questions |-> qs, answers |-> as, subject |-> "py", subtopic |-> "a"]
    IN {Submission(<<q>>, as) :
            q \in JudgedQuestions, as \in UpTo(JudgedAnswers, 1)}
       \cup UNION {{Submission(qs, as) : as \in UpTo(BlankOrGiven, Len(qs))} :
                      qs \in QuestionLists}
       \cup UNION {{Submission([i \in 1..n |-> CHOOSE q \in QuestionPool : q.id = "q1"],
                               as) : as \in [1..n -> {"", "x"}]} : n \in 0..MaxScored}
       \cup {Submission(qs, [i \in 1..Len(qs) |-> resolve_correct_answer(qs[i])]) :
                 qs \in UpTo(JudgedQuestions, 2)}

InitScoring ==
    /\ session = EmptyDict
    /\ test_completed_lessons = EmptyDict
    /\ test_watched_videos = EmptyDict
    /\ test_admin_override = FALSE
    /\ ret = "None"
    /\ quiz \in ScoringInputs
    /\ analysis = NoAnalysis
    /\ analysis_cache = EmptyDict
    /\ api_key = None
    /\ \E vocabulary \in VocabularyInputs :
           allowed_tags_config = [subject \in Subjects |->
                                     IF subject = "py" THEN vocabulary ELSE <<>>]
    /\ allowed_tag_cache = EmptyDict
    /\ FlowIdle

\* is_answer_correct(question, answer) for every answer given.
JudgeAnswers ==
    /\ response' =
           [status |-> 0,
            judged |-> [i \in 1..Len(quiz.answers) |->
                           is_answer_correct(quiz.questions[i], quiz.answers[i])]]
    /\ UNCHANGED <<progressVars, analysisVars, question_pool>>

NextScoring ==
    \/ JudgeAnswers
    \/ ComputeBasicQuizAnalysis

SpecScoring == InitScoring /\ [][NextScoring]_vars

(***************************************************************************)
(* AIService.select_remedial_questions: the selection of remedial          *)
(* questions from a subtopic's question pool.  The route and the tests     *)
(* call it; its body follows the contract of the remedial selector         *)
(* (select_remedial(question_pool, weak_topics, min_count=7, max_count=10)).*)
(***************************************************************************)
MinRemedial == 7
MaxRemedial == 10

Min(a, b) == IF a <= b THEN a ELSE b
Max(a, b) == IF a >= b THEN a ELSE b

\* The identity of a question: its id or, failing that, its text.
question_identity(question) ==
    IF "id" \in DOMAIN question /\ Truthy(question.id)
    THEN <<"id", question.id>> ELSE <<"question", question.question>>

\* The pool without the later occurrences of a question already in it.
deduplicated(pool) ==
    LET firsts == SelectSeq([i \in 1..Len(pool) |-> i],
                            LAMBDA i : \A h \in 1..(i - 1) :
                                question_identity(pool[h]) # question_identity(pool[i]))
    IN [k \in 1..Len(firsts) |-> pool[firsts[k]]]

\* The weak topics as a lower-cased set.
lowered_topics(weak_topics) == {lower(weak_topics[i]) : i \in 1..Len(weak_topics)}

\* The question has a tag among the lower-cased weak topics.
is_relevant(question, topics) ==
    /\ "tags" \in DOMAIN question
    /\ \E i \in 1..Len(question.tags) :
           question.tags[i] # None /\ lower(question.tags[i]) \in topics

\* The target size: the number of relevant questions, clamped to
\* [min(min_count, pool_size), min(max_count, pool_size)].
target_size(relevant_count, pool_size) ==
    Max(Min(MinRemedial, pool_size), Min(relevant_count, Min(MaxRemedial, pool_size)))

\* The first questions of the pool up to the target, relevant or not.
selected_in_pool_order(pool, relevant, filler, target) == SubSeq(pool, 1, target)

\* Relevant questions first, filler for the remainder; with no relevant
\* question, the first max_count questions of the pool.
selected_from(pool, relevant, filler, target) ==
    IF relevant = <<>> THEN SubSeq(pool, 1, Min(MaxRemedial, Len(pool)))
    ELSE SubSeq(relevant, 1, Min(target, Len(relevant)))
             \o SubSeq(filler, 1, target - Min(target, Len(relevant)))

select_from_distinct(pool, topics) ==
    selected_from(pool,
                  SelectSeq(pool, LAMBDA question : is_relevant(question, topics)),
                  SelectSeq(pool, LAMBDA question : ~is_relevant(question, topics)),
                  target_size(Len(SelectSeq(pool, LAMBDA question :
                                                is_relevant(question, topics))),
                              Len(pool)))

\* The selection over the pool as given, repeated questions included.
select_without_deduplication(pool, weak_topics) ==
    select_from_distinct(pool, lowered_topics(weak_topics))

select_remedial_questions(pool, weak_topics) ==
    select_from_distinct(deduplicated(pool), lowered_topics(weak_topics))

(***************************************************************************)
(* Remedial selection as a state machine: a question pool is drawn at the  *)
(* start and questions are selected from it for every list of weak topics. *)
(***************************************************************************)
\* The longest question pool.
MaxPool == 11

\* The kinds of pool: every third question on loops; every question on
\* loops and if; no question on either; the same four ids over and over;
\* questions without id, each text twice.
PoolKinds == {"mixed", "relevant", "none", "repeats", "no_id"}

\* Question i of a pool of the kind.
PoolQuestionAt(kind, i) ==
    LET text == "Q" \o ToString(i)
    IN CASE kind = "mixed" ->
                [id |-> "p" \o ToString(i), question |-> text,
                 tags |-> IF i % 3 = 0 THEN <<"Loops">> ELSE <<"strings", None>>]
         [] kind = "relevant" ->
                [id |-> "p" \o ToString(i), question |-> text, tags |-> <<"loops", "If">>]
         [] kind = "none" ->
                [id |-> "p" \o ToString(i), question |-> text, tags |-> <<"strings">>]
         [] kind = "repeats" ->
                [id |-> "p" \o ToString(((i - 1) % 4) + 1), question |-> text,
                 tags |-> IF i % 2 = 0 THEN <<"loops">> ELSE <<>>]
         [] kind = "no_id" ->
                [question |-> "Q" \o ToString((i + 1) \div 2),
                 tags |-> IF i % 4 = 1 THEN <<"LOOPS">> ELSE <<"strings">>]

RemedialPools ==
    {[i \in 1..n |-> PoolQuestionAt(kind, i)] : kind \in PoolKinds, n \in 0..MaxPool}

\* The weak topics a selection is asked for.
WeakTopicLists == {<<"loops">>, <<"Loops", "loops">>, <<"LOOPS", "if">>, <<"recursion">>, <<>>}

InitRemedial ==
    /\ session = EmptyDict
    /\ test_completed_lessons = EmptyDict
    /\ test_watched_videos = EmptyDict
    /\ test_admin_override = FALSE
    /\ ret = "None"
    /\ AnalysisIdle
    /\ question_pool \in RemedialPools
    /\ response = NoRouteResponse

\* ai_service.select_remedial_questions(question_pool, weak_topics)
SelectRemedialQuestions ==
    \E weak_topics \in WeakTopicLists :
        /\ response' = [status |-> 0, weak_topics |-> weak_topics,
                        selected |-> select_remedial_questions(question_pool, weak_topics)]
        /\ UNCHANGED <<progressVars, analysisVars, question_pool>>

NextRemedial == SelectRemedialQuestions

SpecRemedial == InitRemedial /\ [][NextRemedial]_vars

(***************************************************************************)
(* The quiz routes (blueprints/main_routes.py): quiz_page serves the       *)
(* initial quiz of a subtopic, generate_remedial_quiz selects and stores   *)
(* the remedial quiz of the active subtopic.  Both run inside a request.   *)
(* response is what the route returned: its status and payload.            *)
(***************************************************************************)
\* data_service.validate_subject_subtopic(subject, subtopic)
validate_subject_subtopic(subject, subtopic) ==
    subject \in Subjects /\ subtopic \in DOMAIN load_subject_config(subject)

\* data_loader.get_quiz_questions(subject, subtopic): "a_b" has no quiz.
get_quiz_questions(subject, subtopic) ==
    CASE subject = "py" /\ subtopic = "c" ->
           <<[id |-> "q1", question |-> "What is a loop?", type |-> "multiple_choice",
              correct_answer |-> "x", tags |-> <<"loops">>],
             [id |-> "q2", question |-> "What is if?", type |-> "multiple_choice",
              correct_answer |-> "y", tags |-> <<"if">>]>>
      [] subject = "py" /\ subtopic = "a_b" -> <<>>
      [] OTHER -> SampleQuestions

\* The session after clear_session_data(subject, subtopic).
SessionCleared(sess, subject, subtopic) ==
    [k \in DOMAIN sess \ keys_to_remove(sess, subject, subtopic) |-> sess[k]]

\* The session after reset_quiz_context().
QuizContextReset(sess) ==
    [k \in DOMAIN sess \ {"quiz_analysis", "quiz_answers", "quiz_generation_error",
                          "current_subject", "current_subtopic"} |-> sess[k]]

\* The session after clear_remedial_quiz_data(subject, subtopic).
RemedialCleared(sess, subject, subtopic) ==
    [k \in DOMAIN sess \ {get_session_key(subject, subtopic, "remedial_questions"),
                          get_session_key(subject, subtopic, "remedial_topics")}
        |-> sess[k]]

\* quiz_page after validation: the session and the fallback stores are
\* cleared for the pair, then the quiz is stored and served, or 404.
quiz_page_of_known(subject, subtopic, quiz_questions) ==
    /\ test_completed_lessons' =
           DictPop(test_completed_lessons,
                   get_session_key(subject, subtopic, "completed_lessons"))
    /\ test_watched_videos' =
           DictPop(test_watched_videos,
                   get_session_key(subject, subtopic, "watched_videos"))
    /\ ret' = "None"
    /\ UNCHANGED test_admin_override
    /\ IF quiz_questions = <<>>
       THEN /\ session' = QuizContextReset(SessionCleared(session, subject, subtopic))
            /\ response' = [status |-> 404, route |-> "quiz_page",
                            error |-> "Error: No quiz questions found for "
                                          \o subject \o "/" \o subtopic \o "."]
       ELSE /\ session' =
                   RemedialCleared(
                       QuizSessionStored(
                           QuizContextReset(SessionCleared(session, subject, subtopic)),
                           subject, subtopic, "initial", quiz_questions),
                       subject, subtopic)
            /\ response' = [status |-> 200, route |-> "quiz_page",
                            subject |-> subject, subtopic |-> subtopic,
                            questions |-> quiz_questions,
                            admin_override |-> get_admin_override_status(TRUE)]

quiz_page(subject, subtopic) ==
    IF ~validate_subject_subtopic(subject, subtopic)
    THEN /\ response' = [status |-> 404, route |-> "quiz_page",
                         error |-> "Error: Subject '" \o subject \o "' with subtopic '"
                                       \o subtopic \o "' not found."]
         /\ UNCHANGED progressVars
    ELSE quiz_page_of_known(subject, subtopic, get_quiz_questions(subject, subtopic))

\* a or b over lists that may be missing.
ListOr(a, b) == IF a # None /\ a # <<>> THEN a ELSE b

\* fallback_topics of the route: the first non-empty of the analysis's
\* weak_tags, weak_topics, missed_tags, weak_areas.
fallback_topics_of(an) ==
    ListOr(Get(an, "weak_tags"),
           ListOr(Get(an, "weak_topics"),
                  ListOr(Get(an, "missed_tags"), ListOr(Get(an, "weak_areas"), <<>>))))

\* weak_topics of the route: the stored weak topics or, without them, the
\* fallback topics of the stored analysis; blank entries dropped.
remedial_weak_topics(subject, subtopic) ==
    SelectSeq(IF get_weak_topics(subject, subtopic) # <<>>
              THEN get_weak_topics(subject, subtopic)
              ELSE fallback_topics_of(
                       DictGet(session,
                               get_session_key(subject, subtopic, "analysis_results"),
                               DictGet(session, "quiz_analysis", EmptyDict))),
              LAMBDA topic : topic # None /\ strip(topic) # "")

\* A failure of the route: nothing is stored.
remedial_failure(status, error) ==
    /\ response' = [status |-> status, route |-> "generate_remedial_quiz",
                    success |-> FALSE, error |-> error]
    /\ UNCHANGED progressVars

\* What set_remedial_quiz_data returns to the route: it has no return
\* statement.
stored_count_of(questions) == "None"

\* The route once the questions are selected.
remedial_stored_and_served(subject, subtopic, remedial_questions, weak_topics) ==
    IF remedial_questions = <<>>
    THEN remedial_failure(404, "We couldn't find follow-up questions for your weak topics. Please review the materials and try again.")
    ELSE /\ session' =
                QuizSessionStored(
                    RemedialStored(session, subject, subtopic, remedial_questions,
                                   weak_topics),
                    subject, subtopic, "remedial", remedial_questions)
         /\ response' = [status |-> 200, route |-> "generate_remedial_quiz",
                         success |-> TRUE,
                         question_count |-> stored_count_of(remedial_questions),
                         stored_question_count |-> stored_count_of(remedial_questions)]
         /\ ret' = "None"
         /\ UNCHANGED <<test_completed_lessons, test_watched_videos,
                        test_admin_override>>

\* The route going on to the selection without looking at the pool.
remedial_of_active_pool_unchecked(subject, subtopic, weak_topics, pool) ==
    IF weak_topics = <<>>
    THEN remedial_failure(400, "No weak topics identified; remedial quiz not required.")
    ELSE remedial_stored_and_served(subject, subtopic,
                                    select_remedial_questions(pool, weak_topics),
                                    weak_topics)

\* The route for an active quiz.
remedial_of_active(subject, subtopic, weak_topics, pool) ==
    IF weak_topics = <<>>
    THEN remedial_failure(400, "No weak topics identified; remedial quiz not required.")
    ELSE IF pool = <<>>
    THEN remedial_failure(404, "No question pool available for remedial quiz.")
    ELSE remedial_stored_and_served(subject, subtopic,
                                    select_remedial_questions(pool, weak_topics),
                                    weak_topics)

generate_remedial_quiz ==
    IF ~Truthy(DictGet(session, "current_subject", None))
           \/ ~Truthy(DictGet(session, "current_subtopic", None))
    THEN remedial_failure(400, "Error: No active quiz session.")
    ELSE remedial_of_active(session.current_subject, session.current_subtopic,
                            remedial_weak_topics(session.current_subject,
                                                 session.current_subtopic),
                            question_pool)

(***************************************************************************)
(* The quiz flow as a state machine: one learner's requests.  The question *)
(* pool of the content store is drawn at the start.                        *)
(***************************************************************************)
\* The pools of the content store: none, and pools of the two kinds with
\* fewer and with more questions than the minimum.
FlowPools ==
    {<<>>} \cup {[i \in 1..n |-> PoolQuestionAt(kind, i)] :
                    kind \in {"mixed", "none"}, n \in {2, 9}}

\* The weak topics the analysis of a quiz stores: some, or only blanks.
FlowTopicLists == {<<"loops">>, <<" ">>}

\* The subtopic whose content the learner completes.
FlowMarkPairs == {<<"py", "c">>}

InitFlow ==
    /\ session = EmptyDict
    /\ test_completed_lessons = EmptyDict
    /\ test_watched_videos = EmptyDict
    /\ test_admin_override = FALSE
    /\ ret = "None"
    /\ AnalysisIdle
    /\ question_pool \in FlowPools
    /\ response = NoRouteResponse

\* The pairs whose quiz is asked for: a subtopic with a quiz and a
\* prerequisite, one without quiz questions, and an unknown one.
FlowPairs == {<<"py", "c">>, <<"py", "a_b">>, <<"py", "ghost">>}

QuizPage ==
    \E p \in FlowPairs :
        /\ quiz_page(p[1], p[2])
        /\ UNCHANGED <<analysisVars, question_pool>>

GenerateRemedialQuiz ==
    /\ generate_remedial_quiz
    /\ UNCHANGED <<analysisVars, question_pool>>

\* A quiz is active in the session.
ActiveQuiz == {"current_subject", "current_subtopic"} \subseteq DOMAIN session

\* The analysis of the active quiz stores its weak topics.
SetWeakTopicsOfActiveQuiz ==
    /\ ActiveQuiz
    /\ \E topics \in FlowTopicLists :
           set_weak_topics(session.current_subject, session.current_subtopic, topics)
    /\ UNCHANGED <<analysisVars, flowVars>>

\* The analysis of the active quiz is stored.
StoreAnalysisOfActiveQuiz ==
    /\ ActiveQuiz
    /\ store_quiz_analysis(session.current_subject, session.current_subtopic,
                           SampleAnalysis)
    /\ UNCHANGED <<analysisVars, flowVars>>

\* The learner completes a lesson in a request.
MarkLessonInRequest ==
    \E p \in FlowMarkPairs, lesson_id \in {"l1"} :
        /\ mark_lesson_complete(p[1], p[2], lesson_id, TRUE)
        /\ UNCHANGED <<analysisVars, flowVars>>

NextFlow ==
    \/ QuizPage
    \/ GenerateRemedialQuiz
    \/ SetWeakTopicsOfActiveQuiz
    \/ StoreAnalysisOfActiveQuiz
    \/ MarkLessonInRequest
    \/ SetAdminOverrideInRequest

SpecFlow == InitFlow /\ [][NextFlow]_vars

(***************************************************************************)
(* The gates: prerequisite checks, the admin override, idempotent marking. *)
(***************************************************************************)
\* The lesson ids a subtopic's content defines: mapping keys, or each list
\* item's id (its position's generated id when it has none).
RequiredLessonIds(subject, subtopic) ==
    LET raw == load_lesson_plans(subject, subtopic)
    IN {IF raw.kind = "dict" THEN raw.items[i].key
        ELSE Or(Get(raw.items[i], "id"), "lesson_" \o ToString(i)) :
            i \in 1..Len(raw.items)}

\* The ids of a subtopic's normalised videos.
RequiredVideoIds(subject, subtopic) ==
    LET videos == get_video_data(subject, subtopic)
    IN {Or(Get(videos[i], "id"), "video_" \o ToString(i)) : i \in 1..Len(videos)}

\* Every lesson of the subtopic is in the completed set and every video in
\* the watched set.
ContentDone(subject, subtopic, ctx) ==
    /\ \A id \in RequiredLessonIds(subject, subtopic) :
           is_lesson_complete(subject, subtopic, id, ctx)
    /\ \A id \in RequiredVideoIds(subject, subtopic) :
           is_video_complete(subject, subtopic, id, ctx)

\* The prerequisite ids a subtopic's configuration lists, in its order
\* (entries that are blank name no subtopic and are no ids).
ConfiguredPrerequisiteIds(subject, subtopic) ==
    LET config == load_subject_config(subject)
        listed == IF subtopic \in DOMAIN config /\ "prerequisites" \in DOMAIN config[subtopic]
                  THEN config[subtopic].prerequisites ELSE <<>>
    IN SelectSeq(listed, LAMBDA entry : strip(entry) # "")

\* C1: check_subtopic_prerequisites(s, t) reports as missing exactly the
\* configured prerequisite ids, in configuration order, that are no subtopic
\* of s or have a lesson not completed or a video not watched; access is
\* allowed exactly when the override is on or nothing is missing. For "c",
\* whose one prerequisite "a" has lessons l1, l2 and video v1: access is
\* denied with missing ["a"] until all three are marked, override off.
C1_MissingPrerequisites ==
    /\ \A p \in QueryPairs, ctx \in BOOLEAN :
        LET r == check_subtopic_prerequisites(p[1], p[2], ctx)
            Missing(id) == \/ id \notin DOMAIN load_subject_config(p[1])
                           \/ ~ContentDone(p[1], id, ctx)
        IN /\ r.missing_prerequisite_ids =
                  SelectSeq(ConfiguredPrerequisiteIds(p[1], p[2]), Missing)
           /\ r.can_access_subtopic =
                  (get_admin_override_status(ctx) \/ r.missing_prerequisite_ids = <<>>)
    /\ \A ctx \in BOOLEAN :
        LET r == check_subtopic_prerequisites("py", "c", ctx)
            allDone == /\ is_lesson_complete("py", "a", "l1", ctx)
                       /\ is_lesson_complete("py", "a", "l2", ctx)
                       /\ is_video_complete("py", "a", "v1", ctx)
        IN ~get_admin_override_status(ctx) =>
              IF allDone
              THEN r.can_access_subtopic /\ r.missing_prerequisite_ids = <<>>
              ELSE ~r.can_access_subtopic /\ r.missing_prerequisite_ids = <<"a">>

\* C1 happens: with the override off, "c" is open because all of "a" is
\* marked, and "a_b" is refused for the one prerequisite that is no subtopic.
C1_Witness ==
    /\ ~get_admin_override_status(TRUE)
    /\ check_subtopic_prerequisites("py", "c", TRUE).can_access_subtopic
    /\ is_lesson_complete("py", "c", "l1", TRUE)
    /\ check_subtopic_prerequisites("py", "a_b", TRUE).missing_prerequisite_ids = <<"ghost">>

\* The completed and watched collections of every pair, in both stores.
Collections ==
    [p \in QueryPairs, ctx \in BOOLEAN |->
        <<ToSet(get_completed_lessons(p[1], p[2], ctx)),
          ToSet(get_watched_videos(p[1], p[2], ctx))>>]

\* A subtopic's lessons as the content lists them: each id once, with the
\* title shown for it (the id itself when the lesson has no title).
LessonEntries(subject, subtopic) ==
    LET raw == load_lesson_plans(subject, subtopic)
        n == Len(raw.items)
        IdAt(i) == IF raw.kind = "dict" THEN raw.items[i].key
                   ELSE Or(Get(raw.items[i], "id"), "lesson_" \o ToString(i))
        firsts == SelectSeq([i \in 1..n |-> i],
                            LAMBDA i : \A h \in 1..(i - 1) : IdAt(h) # IdAt(i))
        LastOf(i) == CHOOSE k \in i..n :
                         IdAt(k) = IdAt(i) /\ \A m \in (k + 1)..n : IdAt(m) # IdAt(i)
    IN [k \in 1..Len(firsts) |->
           [id |-> IdAt(firsts[k]),
            title |-> IF "title" \in DOMAIN raw.items[LastOf(firsts[k])]
                      THEN raw.items[LastOf(firsts[k])].title ELSE IdAt(firsts[k])]]

\* A subtopic's normalised videos as listed, each with the title shown for it.
VideoEntries(subject, subtopic) ==
    LET videos == get_video_data(subject, subtopic)
    IN [i \in 1..Len(videos) |->
           [id |-> videos[i].id,
            title |-> IF "title" \in DOMAIN videos[i] THEN videos[i].title
                      ELSE videos[i].id]]

\* The titles of the entries whose id is not in the collection.
TitlesOutside(entries, collection) ==
    LET left == SelectSeq(entries, LAMBDA e : e.id \notin collection)
    IN [i \in 1..Len(left) |-> left[i].title]

\* The missing lists of the two checks are determined by the completed and
\* watched collections alone: the override flag does not enter them.
MissingListsIgnoreOverride ==
    \A p \in QueryPairs, ctx \in BOOLEAN :
        LET access == check_subtopic_prerequisites(p[1], p[2], ctx)
            gate == check_quiz_prerequisites(p[1], p[2], ctx)
            Missing(id) == \/ id \notin DOMAIN load_subject_config(p[1])
                           \/ ~ContentDone(p[1], id, ctx)
        IN /\ access.missing_prerequisite_ids =
                  SelectSeq(ConfiguredPrerequisiteIds(p[1], p[2]), Missing)
           /\ gate.missing_lessons =
                  TitlesOutside(LessonEntries(p[1], p[2]), Collections[p, ctx][1])
           /\ gate.missing_videos =
                  TitlesOutside(VideoEntries(p[1], p[2]), Collections[p, ctx][2])
           /\ Len(gate.missing_items) =
                  Len(gate.missing_lessons) + Len(gate.missing_videos)

\* Some call of set_admin_override or toggle_admin_override is this step.
OverrideStep ==
    \/ \E enabled \in BOOLEAN, ctx \in BOOLEAN : set_admin_override(enabled, ctx)
    \/ \E ctx \in BOOLEAN : toggle_admin_override(ctx)

\* C2: while get_admin_override_status() is true, can_access_subtopic and
\* can_take_quiz are true for every subject and subtopic, whatever is
\* completed; set_admin_override and toggle_admin_override change no
\* completed or watched collection; and the missing lists the checks report
\* depend on those collections only, so they are the same with the override
\* on as with it off.
C2_OverrideBypasses ==
    /\ [](\A p \in QueryPairs, ctx \in BOOLEAN :
            get_admin_override_status(ctx) =>
                /\ check_subtopic_prerequisites(p[1], p[2], ctx).can_access_subtopic
                /\ check_quiz_prerequisites(p[1], p[2], ctx).can_take_quiz)
    /\ []MissingListsIgnoreOverride
    /\ [][OverrideStep => Collections' = Collections]_vars

\* C2 happens: the override was just switched on in a request while "a" has
\* content left undone, and both gates are open all the same.
C2_Witness ==
    /\ ret = "True"
    /\ get_admin_override_status(TRUE)
    /\ is_lesson_complete("py", "a", "l1", TRUE)
    /\ ~check_quiz_prerequisites("py", "a", TRUE).lessons_complete
    /\ check_quiz_prerequisites("py", "a", TRUE).can_take_quiz
    /\ check_subtopic_prerequisites("py", "c", TRUE).missing_prerequisite_ids = <<"a">>
    /\ check_subtopic_prerequisites("py", "c", TRUE).can_access_subtopic

\* The stores are as they were, the call reported success, and
\* check_subtopic_progress counts the same for the pair.
SameAsOneCall(p, ctx) ==
    /\ session' = session
    /\ test_completed_lessons' = test_completed_lessons
    /\ test_watched_videos' = test_watched_videos
    /\ ret' = "True"
    /\ check_subtopic_progress(p[1], p[2], 2, 1, ctx)' =
           check_subtopic_progress(p[1], p[2], 2, 1, ctx)

\* C5: marking a lesson or a video that is already marked, with
\* mark_lesson_complete, mark_video_complete or update_progress (item type
\* lesson or video), in the session or in the fallback store, leaves the
\* completed and watched collections and the counts of
\* check_subtopic_progress as the first call left them; every call of the
\* three with such an item type returns success.
C5_MarkingIdempotent ==
    [][/\ ret' # "True" =>
            \A p \in Pairs, ctx \in BOOLEAN :
                /\ \A lesson_id \in LessonItemIds :
                    /\ ~mark_lesson_complete(p[1], p[2], lesson_id, ctx)
                    /\ ~update_progress(p[1], p[2], lesson_id, "lesson", ctx)
                /\ \A video_id \in VideoItemIds :
                    /\ ~mark_video_complete(p[1], p[2], video_id, ctx)
                    /\ ~update_progress(p[1], p[2], video_id, "video", ctx)
       /\ \A p \in Pairs, ctx \in BOOLEAN :
            /\ \A lesson_id \in LessonItemIds :
                is_lesson_complete(p[1], p[2], lesson_id, ctx) =>
                    /\ mark_lesson_complete(p[1], p[2], lesson_id, ctx)
                           => SameAsOneCall(p, ctx)
                    /\ update_progress(p[1], p[2], lesson_id, "lesson", ctx)
                           => SameAsOneCall(p, ctx)
            /\ \A video_id \in VideoItemIds :
                is_video_complete(p[1], p[2], video_id, ctx) =>
                    /\ mark_video_complete(p[1], p[2], video_id, ctx)
                           => SameAsOneCall(p, ctx)
                    /\ update_progress(p[1], p[2], video_id, "video", ctx)
                           => SameAsOneCall(p, ctx)
      ]_vars

\* C5 happens: marks have returned success, the session holds both lessons
\* of "a" once each, and the fallback store holds a watched video; every
\* mark is offered again from here.
C5_Witness ==
    /\ ret = "True"
    /\ get_completed_lessons("py", "a", TRUE) \in {<<"l1", "l2">>, <<"l2", "l1">>}
    /\ is_video_complete("py", "a", "v1", FALSE)
    /\ check_subtopic_progress("py", "a", 2, 1, TRUE).completed_count = 2
    /\ check_subtopic_progress("py", "a", 2, 1, FALSE).watched_count = 1

PairReads(p) ==
    <<{id \in LessonItemIds : is_lesson_complete(p[1], p[2], id, TRUE)},
      {id \in VideoItemIds : is_video_complete(p[1], p[2], id, TRUE)},
      get_weak_topics(p[1], p[2]),
      get_quiz_analysis(p[1], p[2])>>

\* This step is a call that writes a record for pair p.
WritesFor(p) ==
    \/ \E lesson_id \in LessonItemIds : mark_lesson_complete(p[1], p[2], lesson_id, TRUE)
    \/ \E video_id \in VideoItemIds : mark_video_complete(p[1], p[2], video_id, TRUE)
    \/ \E topics \in WeakTopicInputs : set_weak_topics(p[1], p[2], topics)
    \/ store_quiz_analysis(p[1], p[2], SampleAnalysis)

\* C3: for two pairs (s1, t1) # (s2, t2), identifiers with underscores
\* included, a call that writes for (s1, t1) (mark_lesson_complete,
\* mark_video_complete, set_weak_topics, store_quiz_analysis) leaves what
\* is_lesson_complete, is_video_complete, get_weak_topics and
\* get_quiz_analysis return for (s2, t2) as it was.
C3_PairsIsolated ==
    [][\A p1 \in Pairs :
          WritesFor(p1) =>
              \A p2 \in Pairs \ {p1} : PairReads(p2)' = PairReads(p2)]_vars

\* Every record the service keeps for a pair, in the session and in the
\* fallback stores.
PairRecords(p) ==
    <<get_completed_lessons(p[1], p[2], TRUE),
      get_watched_videos(p[1], p[2], TRUE),
      get_completed_lessons(p[1], p[2], FALSE),
      get_watched_videos(p[1], p[2], FALSE),
      get_quiz_session_data(p[1], p[2]).quiz_type,
      get_quiz_session_data(p[1], p[2]).questions,
      get_quiz_analysis(p[1], p[2]),
      get_weak_topics(p[1], p[2]),
      get_remedial_quiz_questions(p[1], p[2]),
      get_remedial_topics(p[1], p[2])>>

\* The records of a pair for which nothing is stored.
NoRecords == <<(<<>>), (<<>>), (<<>>), (<<>>), None, None, None, (<<>>), (<<>>), (<<>>)>>

\* C4: clear_session_data(s, t) removes every record of (s, t) and leaves
\* the admin-override flag and the records of every other pair unchanged;
\* stated here for the other pairs of the same subject, among them those
\* whose subtopic identifier starts with t.
C4_ClearOnlyThePair ==
    [][\A p \in Pairs :
          clear_session_data(p[1], p[2]) =>
              /\ PairRecords(p)' = NoRecords
              /\ get_admin_override_status(TRUE)' = get_admin_override_status(TRUE)
              /\ get_admin_override_status(FALSE)' = get_admin_override_status(FALSE)
              /\ \A other \in Pairs :
                    (other # p /\ other[1] = p[1]) =>
                        PairRecords(other)' = PairRecords(other)]_vars

(***************************************************************************)
(* The analyses: vocabulary, the shape of the weak-topic list, fallback.   *)
(***************************************************************************)
\* The last analysis call returned an analysis.
Analysed == "weak_topics" \in DOMAIN analysis

\* The subject's vocabulary: its configured allowed tags, trimmed.
Vocabulary == ToSet(NormalizedAllowedTags(quiz.subject))

\* C7: with a non-empty allowed-tag vocabulary, every entry of weak_topics,
\* weak_tags and weak_areas of an analysis returned by
\* compute_basic_quiz_analysis or analyze_quiz_performance is a tag of the
\* vocabulary, spelled as the vocabulary spells it.
C7_WeakTopicsInVocabulary ==
    (Analysed /\ Vocabulary # {}) =>
        \A field \in {"weak_topics", "weak_tags", "weak_areas"} :
            \A i \in 1..Len(analysis[field]) : analysis[field][i] \in Vocabulary

\* No two entries equal but for case, no empty entry, no entry with
\* whitespace at either end.
WellFormedTopics(list) ==
    /\ \A i \in 1..Len(list) : list[i] # "" /\ strip(list[i]) = list[i]
    /\ \A i, j \in 1..Len(list) : i # j => lower(list[i]) # lower(list[j])

\* The case-insensitive tags of the input entries that are non-blank strings.
InputKeys(inputs) ==
    LET kept == SelectSeq(inputs, LAMBDA tag : tag # None /\ strip(tag) # "")
    IN [i \in 1..Len(kept) |-> lower(strip(kept[i]))]

\* Every entry's tag occurs among the inputs, and the entries stand in the
\* order in which their tags first occur there.
InOrderOfFirstAppearance(list, inputs) ==
    LET keys == InputKeys(inputs)
        First(key) == CHOOSE i \in 1..Len(keys) :
                          keys[i] = key /\ \A h \in 1..(i - 1) : keys[h] # key
    IN /\ \A i \in 1..Len(list) : InList(lower(list[i]), keys)
       /\ \A i, j \in 1..Len(list) :
              i < j => First(lower(list[i])) < First(lower(list[j]))

\* The tags of the incorrectly answered questions, in question order: each
\* question's tags, its topic, and the tags the rules add for it.
MissedQuestionTags ==
    LET Answer(i) == IF i <= Len(quiz.answers) THEN quiz.answers[i] ELSE ""
        missed == SelectSeq(Indices(Len(quiz.questions)),
                            LAMBDA i : ~is_answer_correct(quiz.questions[i], Answer(i)))
    IN Flatten([k \in 1..Len(missed) |->
                   _apply_rule_based_topics(quiz.questions[missed[k]], FALSE,
                                            collect_question_tags(quiz.questions[missed[k]]))])

\* The tags the LLM returned, in its order, for an analysis that used them.
ReturnedTags ==
    IF Analysed /\ analysis.used_ai /\ "raw_ai_response" \in DOMAIN analysis
    THEN LET given == JGet(analysis.raw_ai_response.payload, "weak_concept_tags")
         IN IF given.t = "str" THEN <<given.s>> ELSE given.items
    ELSE <<>>

\* Every list stored as weak topics is well formed.
StoredTopicsWellFormed ==
    \A p \in Pairs : WellFormedTopics(get_weak_topics(p[1], p[2]))

\* On a set_weak_topics step the stored list is in order of first
\* appearance among the topics passed.
StoredTopicsInInputOrder ==
    \A topics \in TopicListInputs :
        set_weak_topics(quiz.subject, quiz.subtopic, topics) =>
            InOrderOfFirstAppearance(get_weak_topics(quiz.subject, quiz.subtopic)', topics)

\* C8 as stated: the weak-topic list of every analysis and every list
\* stored by set_weak_topics has no two entries equal but for case, only
\* non-empty trimmed entries, and is in order of first appearance among the
\* input tags: for an analysis, the tags of the incorrectly answered
\* questions in question order.
C8_AsStated ==
    /\ [](Analysed =>
            /\ WellFormedTopics(analysis.weak_topics)
            /\ InOrderOfFirstAppearance(analysis.weak_topics, MissedQuestionTags))
    /\ []StoredTopicsWellFormed
    /\ [][StoredTopicsInInputOrder]_vars

\* C8 amended: as C8, but the list of an analysis is in order of first
\* appearance among the tags of the incorrectly answered questions or, when
\* the analysis used the LLM's result, among the tags the LLM returned.
C8_TopicListShape ==
    /\ [](Analysed =>
            /\ WellFormedTopics(analysis.weak_topics)
            /\ analysis.weak_tags = analysis.weak_topics
            /\ analysis.weak_areas = analysis.weak_topics
            /\ \/ InOrderOfFirstAppearance(analysis.weak_topics, MissedQuestionTags)
               \/ InOrderOfFirstAppearance(analysis.weak_topics, ReturnedTags))
    /\ []StoredTopicsWellFormed
    /\ [][StoredTopicsInInputOrder]_vars

\* C8 happens: an enhanced analysis lists "if" before "Loops" as the LLM
\* did, although the question on loops was missed first, and the list was
\* stored as the pair's weak topics.
C8_Witness ==
    /\ Analysed
    /\ analysis.used_ai
    /\ analysis.weak_topics = <<"if", "Loops">>
    /\ InputKeys(MissedQuestionTags) = <<"loops", "if", "programming logic", "advanced practice">>
    /\ get_weak_topics(quiz.subject, quiz.subtopic) = <<"if", "Loops">>

\* The LLM gave nothing usable: no call was made, or the response is no
\* text, holds no JSON object, or holds an object whose tag list is empty
\* or without a tag that passes the vocabulary.
NothingUsableFromLLM ==
    \/ "raw_ai_response" \notin DOMAIN analysis
    \/ analysis.raw_ai_response.form \in {"none", "empty", "prose", "braces", "scalar"}
    \/ /\ analysis.raw_ai_response.form = "object"
       /\ JGet(analysis.raw_ai_response.payload, "weak_concept_tags").t = "list"
       /\ filter_allowed_tags(
              JGet(analysis.raw_ai_response.payload, "weak_concept_tags").items,
              AllowedLookup(analysis.allowed_tags)) = <<>>

\* C9: when the LLM is not configured, its call returns nothing, its
\* response cannot be parsed as a JSON object, or the object's tag list is
\* empty or has no tag of the vocabulary, analyze_quiz_performance returns
\* the basic analysis's weak_topics, entries and order, and used_ai false.
C9_FallbackIsBasic ==
    (Analysed /\ NothingUsableFromLLM) =>
        /\ analysis.weak_topics =
               compute_basic_quiz_analysis(quiz.questions, quiz.answers,
                                           quiz.subject, quiz.subtopic).weak_topics
        /\ ~analysis.used_ai

\* C10: whatever the LLM call gives back, analyze_quiz_performance returns
\* an analysis with score and weak_topics; it does not raise.
C10_NeverRaises ==
    analysis # NoAnalysis =>
        /\ "raised" \notin DOMAIN analysis
        /\ {"score", "weak_topics"} \subseteq DOMAIN analysis

(***************************************************************************)
(* Scoring: the score, blank answers, the rule of each question type.      *)
(***************************************************************************)
\* The answer at a position of the submission, None when the list is shorter.
AnswerAt(i) == IF i <= Len(quiz.answers) THEN quiz.answers[i] ELSE None

\* The positions whose answer is judged correct.
CorrectPositions ==
    {i \in 1..Len(quiz.questions) : is_answer_correct(quiz.questions[i], AnswerAt(i))}

\* p is an integer nearest to 100 * correct / total.
NearestPercentage(p, correct, total) ==
    LET diff == 100 * correct - total * p
    IN 2 * (IF diff < 0 THEN -diff ELSE diff) <= total

\* The analysis is the basic analysis of the submission drawn.
Scored == Analysed /\ analysis.analysis_stage = "basic"

\* C13: compute_basic_quiz_analysis returns score.total = the number of
\* questions, score.correct = the number judged correct, score.correct +
\* len(wrong_question_indices) = score.total, a percentage from 0 to 100
\* that is 100 * correct / total rounded to an integer when total > 0, and
\* percentage 0 when there is no question.
C13_ScoreIsCorrect ==
    Scored =>
        LET score == analysis.score
            wrong == analysis.wrong_question_indices
        IN /\ score.total = Len(quiz.questions)
           /\ score.correct = Cardinality(CorrectPositions)
           /\ score.correct + Len(wrong) = score.total
           /\ ToSet(wrong) = {i - 1 : i \in (1..Len(quiz.questions)) \ CorrectPositions}
           /\ score.percentage \in 0..100
           /\ score.total > 0 =>
                  NearestPercentage(score.percentage, score.correct, score.total)
           /\ score.total = 0 => score.percentage = 0

\* C13 happens: one of eight right is 12.5 percent, reported as 12.
C13_Witness ==
    /\ Scored
    /\ analysis.score = [correct |-> 1, total |-> 8, percentage |-> 12]

\* An answer that is None, empty or whitespace.
IsBlank(answer) == answer = None \/ strip(answer) = ""

\* The question carries a tag or topic that is not blank.
CarriesTag(question) ==
    \E i \in 1..Len(collect_question_tags(question)) :
        strip(collect_question_tags(question)[i]) # ""

\* C14: a missing, None, empty or whitespace answer is judged incorrect for
\* every question; a submission of n > 0 questions whose answers are all
\* blank has score.correct = 0, percentage 0, wrong_question_indices =
\* [0, ..., n-1], and weak_topics non-empty when some question carries a
\* non-blank tag.
C14_BlankIsIncorrect ==
    /\ "judged" \in DOMAIN response =>
           \A i \in 1..Len(response.judged) :
               IsBlank(quiz.answers[i]) => ~response.judged[i]
    /\ (Scored /\ quiz.questions # <<>>
               /\ \A i \in 1..Len(quiz.questions) : IsBlank(AnswerAt(i))) =>
           /\ analysis.score.correct = 0
           /\ analysis.score.percentage = 0
           /\ analysis.wrong_question_indices =
                  [i \in 1..Len(quiz.questions) |-> i - 1]
           /\ (\E i \in 1..Len(quiz.questions) : CarriesTag(quiz.questions[i])) =>
                  analysis.weak_topics # <<>>

\* C14 happens: two questions, one answer None and one missing, scored 0
\* with weak topics.
C14_Witness ==
    /\ Scored
    /\ Len(quiz.questions) = 2
    /\ quiz.answers = <<None>>
    /\ analysis.score.percentage = 0
    /\ analysis.wrong_question_indices = <<0, 1>>
    /\ analysis.weak_topics # <<>>

\* The type of a question as the rules read it.
TypeOf(question) ==
    lower(strip(IF "type" \in DOMAIN question THEN question.type ELSE "multiple_choice"))

\* The lower-cased answers a fill-in-the-blank question accepts: the parts
\* of the comma-split primary answer and the entries of its list, which is
\* correct_answers, or acceptable_answers when that is missing or empty.
AcceptedAnswers(question) ==
    LET Listed(field) == IF field \in DOMAIN question THEN question[field] ELSE <<>>
        list == IF Listed("correct_answers") # <<>> THEN Listed("correct_answers")
                ELSE Listed("acceptable_answers")
        parts == ToSet(split(resolve_correct_answer(question), ","))
    IN {lower(strip(text)) : text \in parts \cup ToSet(list)} \ {""}

\* The rule of the question's type, applied to the trimmed answer.
TypeRule(question, raw_answer) ==
    LET trimmed == strip(IF raw_answer = None THEN "" ELSE raw_answer)
    IN CASE TypeOf(question) = "multiple_choice" ->
                trimmed = strip(resolve_correct_answer(question))
         [] TypeOf(question) = "fill_in_the_blank" ->
                lower(trimmed) \in AcceptedAnswers(question)
         [] TypeOf(question) = "coding" -> FALSE

RuledTypes == {"multiple_choice", "fill_in_the_blank", "coding"}

\* C15 as stated: is_answer_correct equals the rule of the type for every
\* question and answer: multiple choice, the trimmed answer equals the
\* trimmed correct answer with case; fill in the blank, the trimmed
\* lower-cased answer is among the accepted answers; coding, false.
C15_AsStated ==
    "judged" \in DOMAIN response =>
        \A i \in 1..Len(response.judged) :
            TypeOf(quiz.questions[i]) \in RuledTypes =>
                response.judged[i] = TypeRule(quiz.questions[i], quiz.answers[i])

\* C15 amended: a blank answer is judged incorrect; a non-blank answer is
\* judged by the rule of the question's type; judging changes neither the
\* submission nor any stored state.
C15_TypeRules ==
    /\ [] ("judged" \in DOMAIN response =>
             \A i \in 1..Len(response.judged) :
                 TypeOf(quiz.questions[i]) \in RuledTypes =>
                     response.judged[i] =
                         (~IsBlank(quiz.answers[i])
                              /\ TypeRule(quiz.questions[i], quiz.answers[i])))
    /\ [][response' # response =>
              UNCHANGED <<quiz, session, test_completed_lessons, test_watched_videos,
                          analysis_cache, allowed_tag_cache>>]_vars

\* C15 happens: a multiple-choice question without a correct answer is
\* given a blank answer and judged incorrect.
C15_Witness ==
    /\ "judged" \in DOMAIN response
    /\ response.judged = <<FALSE>>
    /\ quiz.questions[1].id = "j3"
    /\ quiz.answers = <<" ">>

(***************************************************************************)
(* The analysis cache: a submission analysed again.                        *)
(***************************************************************************)
\* An analysis that a successful enrichment produced.
Enriched(an) == "used_ai" \in DOMAIN an /\ an.used_ai

\* The fields of the analysis output a resubmission is to repeat.
RepeatedFields == {"weak_topics", "feedback", "recommendations", "used_ai", "analysis_stage"}

\* C16: once analyze_quiz_performance has returned an enriched analysis for
\* the submission, a later call for the same submission issues no LLM
\* request and returns the same weak_topics, feedback, recommendations,
\* used_ai and analysis_stage as that call.
C16_ResubmissionRepeats ==
    [][(Enriched(analysis) /\ Enriched(analysis')) =>
           /\ ~CallsLLM
           /\ \A field \in RepeatedFields : analysis'[field] = analysis[field]]_vars

(***************************************************************************)
(* Progress outside a request: the per-process fallback stores.            *)
(***************************************************************************)
\* The item is recorded for the pair in the fallback store.
InFallback(store, subject, subtopic, key_type, item_id) ==
    item_id \in DictGet(store, get_session_key(subject, subtopic, key_type), {})

\* All content of the subtopic is recorded in the fallback stores.
FallbackContentDone(subject, subtopic) ==
    /\ \A id \in RequiredLessonIds(subject, subtopic) :
           InFallback(test_completed_lessons, subject, subtopic, "completed_lessons", id)
    /\ \A id \in RequiredVideoIds(subject, subtopic) :
           InFallback(test_watched_videos, subject, subtopic, "watched_videos", id)

\* Outside a request the lookups and the prerequisite check read the
\* fallback stores.
LookupsReadFallback ==
    \A p \in QueryPairs :
        LET r == check_subtopic_prerequisites(p[1], p[2], FALSE)
            Missing(id) == \/ id \notin DOMAIN load_subject_config(p[1])
                           \/ ~FallbackContentDone(p[1], id)
        IN /\ \A id \in LessonItemIds :
                is_lesson_complete(p[1], p[2], id, FALSE) =
                    InFallback(test_completed_lessons, p[1], p[2], "completed_lessons", id)
           /\ \A id \in VideoItemIds :
                is_video_complete(p[1], p[2], id, FALSE) =
                    InFallback(test_watched_videos, p[1], p[2], "watched_videos", id)
           /\ r.missing_prerequisite_ids =
                  SelectSeq(ConfiguredPrerequisiteIds(p[1], p[2]), Missing)

\* A mark outside a request reports success and the lookup that follows
\* finds the item.
MarkOutsideIsSeen ==
    /\ \A p \in Pairs, id \in LessonItemIds :
           mark_lesson_complete(p[1], p[2], id, FALSE) =>
               /\ ret' = "True"
               /\ is_lesson_complete(p[1], p[2], id, FALSE)'
    /\ \A p \in Pairs, id \in VideoItemIds :
           mark_video_complete(p[1], p[2], id, FALSE) =>
               /\ ret' = "True"
               /\ is_video_complete(p[1], p[2], id, FALSE)'

\* An id found complete outside a request after a step and not before it
\* was marked outside a request by that step.
CompleteOnlyByMark ==
    /\ \A p \in QueryPairs, id \in LessonItemIds :
           (is_lesson_complete(p[1], p[2], id, FALSE)'
                /\ ~is_lesson_complete(p[1], p[2], id, FALSE)) =>
               \E q \in Pairs : mark_lesson_complete(q[1], q[2], id, FALSE)
    /\ \A p \in QueryPairs, id \in VideoItemIds :
           (is_video_complete(p[1], p[2], id, FALSE)'
                /\ ~is_video_complete(p[1], p[2], id, FALSE)) =>
               \E q \in Pairs : mark_video_complete(q[1], q[2], id, FALSE)

\* Nothing is complete outside a request.
NothingCompleteOutside ==
    \A p \in QueryPairs :
        /\ \A id \in LessonItemIds : ~is_lesson_complete(p[1], p[2], id, FALSE)
        /\ \A id \in VideoItemIds : ~is_video_complete(p[1], p[2], id, FALSE)

Selected == "selected" \in DOMAIN response

\* The identities of the questions of a list.
Identities(questions) == {question_identity(questions[i]) : i \in 1..Len(questions)}

\* The questions are of the pool and no two have the same identity.
FromPoolWithoutRepeats(questions) ==
    /\ \A i \in 1..Len(questions) : \E k \in 1..Len(question_pool) :
           questions[i] = question_pool[k]
    /\ Cardinality(Identities(questions)) = Len(questions)

\* C11 as stated: for a non-empty pool the selection has between
\* min(7, pool_size) and min(10, pool_size) questions, pool_size being the
\* length of the pool; each is a member of the pool and no two have the
\* same identity.
C11_AsStated ==
    (Selected /\ question_pool # <<>>) =>
        /\ Min(MinRemedial, Len(question_pool)) <= Len(response.selected)
        /\ Len(response.selected) <= Min(MaxRemedial, Len(question_pool))
        /\ FromPoolWithoutRepeats(response.selected)

\* C11 amended: the same with pool_size the number of distinct question
\* identities in the pool.
C11_RemedialBounds ==
    (Selected /\ question_pool # <<>>) =>
        LET pool_size == Cardinality(Identities(question_pool))
        IN /\ Min(MinRemedial, pool_size) <= Len(response.selected)
           /\ Len(response.selected) <= Min(MaxRemedial, pool_size)
           /\ FromPoolWithoutRepeats(response.selected)

\* C11 happens: from a pool of eleven questions with four identities the
\* four are selected; and from a pool of eleven distinct ones, seven.
C11_Witness ==
    /\ Selected
    /\ Len(question_pool) = 11
    /\ \/ Cardinality(Identities(question_pool)) = 4 /\ Len(response.selected) = 4
       \/ Cardinality(Identities(question_pool)) = 11 /\ Len(response.selected) = 7

\* The lower-cased tags of the question meet the lower-cased weak topics.
TagsMeetTopics(question, weak_topics) ==
    LET tags == IF "tags" \in DOMAIN question
                THEN SelectSeq(question.tags, LAMBDA tag : tag # None) ELSE <<>>
    IN {lower(tags[i]) : i \in 1..Len(tags)}
           \cap {lower(weak_topics[i]) : i \in 1..Len(weak_topics)} # {}

\* The distinct questions of the pool that are relevant to the topics of
\* the selection, in pool order, and the others.
RelevantInPool ==
    SelectSeq(deduplicated(question_pool),
              LAMBDA question : TagsMeetTopics(question, response.weak_topics))
FillerInPool ==
    SelectSeq(deduplicated(question_pool),
              LAMBDA question : ~TagsMeetTopics(question, response.weak_topics))

\* The selection is the first k relevant questions followed by the first
\* filler questions, with filler only after every relevant one.
RelevantThenFiller ==
    \E k \in 0..Len(response.selected) :
        /\ k <= Len(RelevantInPool)
        /\ Len(response.selected) - k <= Len(FillerInPool)
        /\ response.selected = SubSeq(RelevantInPool, 1, k)
                                   \o SubSeq(FillerInPool, 1, Len(response.selected) - k)
        /\ k < Len(response.selected) => k = Len(RelevantInPool)

C17_QuizOnlyAfterPrerequisites ==
    [][\A p \in FlowPairs :
          (quiz_page(p[1], p[2]) /\ response'.status = 200) =>
              /\ check_quiz_prerequisites(p[1], p[2], TRUE).can_take_quiz
              /\ check_subtopic_prerequisites(p[1], p[2], TRUE).can_access_subtopic]_vars

\* The weak topics the remedial route finds for the active quiz.
ActiveWeakTopics ==
    IF ActiveQuiz
    THEN remedial_weak_topics(session.current_subject, session.current_subtopic)
    ELSE <<>>

\* The first list is the second with some entries left out.
RECURSIVE IsSubsequence(_, _)
IsSubsequence(sub, seq) ==
    IF sub = <<>> THEN TRUE
    ELSE IF seq = <<>> THEN FALSE
    ELSE IF Head(sub) = Head(seq) THEN IsSubsequence(Tail(sub), Tail(seq))
    ELSE IsSubsequence(sub, Tail(seq))

\* The remedial questions stored for the active quiz.
StoredRemedial ==
    IF ActiveQuiz
    THEN get_remedial_quiz_questions(session.current_subject, session.current_subtopic)
    ELSE <<>>

\* C19: remedial generation with a non-empty weak-topic set.  With an empty
\* question pool the caller gets the 'no question pool available' failure
\* and the session is as before; with a pool none of whose questions has a
\* tag among the weak topics the call succeeds and stores a non-empty list
\* of pool questions in pool order.
C19_PoolFailureAndFallback ==
    [][(generate_remedial_quiz /\ ActiveWeakTopics # <<>>) =>
          /\ question_pool = <<>> =>
                 /\ response'.status = 404
                 /\ ~response'.success
                 /\ response'.error = "No question pool available for remedial quiz."
                 /\ session' = session
          /\ (question_pool # <<>>
                  /\ \A k \in 1..Len(question_pool) :
                         ~TagsMeetTopics(question_pool[k], ActiveWeakTopics)) =>
                 /\ response'.status = 200
                 /\ response'.success
                 /\ StoredRemedial' # <<>>
                 /\ IsSubsequence(StoredRemedial', question_pool)]_vars

\* C19 happens: nine pool questions, none on the weak topic loops; the
\* remedial quiz was generated and the nine are stored.
C19_Witness ==
    /\ response.status = 200
    /\ response.route = "generate_remedial_quiz"
    /\ ActiveWeakTopics = <<"loops">>
    /\ Len(question_pool) = 9
    /\ \A k \in 1..Len(question_pool) : ~TagsMeetTopics(question_pool[k], <<"loops">>)
    /\ StoredRemedial = question_pool

\* The quiz type and the questions served for analysis of the active quiz.
ActiveQuizData == get_quiz_session_data(session.current_subject, session.current_subtopic)

\* After quiz_page the quiz type is "initial"; after a successful remedial
\* generation the stored list, the served list and the selection are the
\* same list and the quiz type is "remedial".
RemedialContext ==
    /\ (response.status = 200 /\ response.route = "quiz_page") =>
           get_quiz_session_data(response.subject, response.subtopic).quiz_type = "initial"
    /\ (response.status = 200 /\ response.route = "generate_remedial_quiz") =>
           /\ StoredRemedial = ActiveQuizData.questions
           /\ StoredRemedial =
                  select_remedial_questions(
                      question_pool,
                      get_remedial_topics(session.current_subject,
                                          session.current_subtopic))
           /\ ActiveQuizData.quiz_type = "remedial"

\* C20: after a successful remedial generation the stored remedial list,
\* the questions served for analysis and the selected remedial set are the
\* same list, the quiz type is "remedial" (and "initial" after quiz_page),
\* and question_count and stored_question_count are the number of stored
\* remedial questions.
C20_RemedialReplacesContext ==
    /\ RemedialContext
    /\ (response.status = 200 /\ response.route = "generate_remedial_quiz") =>
           /\ response.question_count = ToString(Len(StoredRemedial))
           /\ response.stored_question_count = ToString(Len(StoredRemedial))

(***************************************************************************)
(* Scoring: questions of unknown type, and the correct answer given back.  *)
(***************************************************************************)
\* The question names no type, or one that has no rule of its own.
UnknownOrUnspecifiedType(question) ==
    \/ "type" \notin DOMAIN question
    \/ lower(strip(question.type)) \notin RuledTypes

\* C25: a question of unknown type, or with no type field, is judged by
\* case-insensitive equality of the trimmed answer and the trimmed resolved
\* correct answer, so an answer that differs from the correct answer only
\* in letter case is judged correct.
C25_UnknownTypeIgnoresCase ==
    "judged" \in DOMAIN response =>
        \A i \in 1..Len(response.judged) :
            (UnknownOrUnspecifiedType(quiz.questions[i]) /\ ~IsBlank(quiz.answers[i])) =>
                response.judged[i] =
                    (lower(strip(quiz.answers[i]))
                         = lower(strip(resolve_correct_answer(quiz.questions[i]))))

\* The resolved correct answer of the question, given back as the answer.
GivenBack(question) == resolve_correct_answer(question)

\* Every question is answered with its resolved correct answer.
AllGivenBack ==
    /\ Len(quiz.answers) = Len(quiz.questions)
    /\ \A i \in 1..Len(quiz.questions) : quiz.answers[i] = GivenBack(quiz.questions[i])

\* The question is not a coding question and has a correct answer.
Answerable(question) ==
    TypeOf(question) # "coding" /\ ~IsBlank(GivenBack(question))

\* C26 as stated: the resolved correct answer of a non-coding question,
\* when not blank, is judged correct whatever its text, commas included,
\* and a submission that gives every question of such a set its resolved
\* correct answer has correct = total, percentage 100 and no wrong index.
C26_AsStated ==
    /\ ("judged" \in DOMAIN response /\ AllGivenBack) =>
           \A i \in 1..Len(response.judged) :
               Answerable(quiz.questions[i]) => response.judged[i]
    /\ (Scored /\ quiz.questions # <<>> /\ AllGivenBack
               /\ \A i \in 1..Len(quiz.questions) : Answerable(quiz.questions[i])) =>
           /\ analysis.score.correct = analysis.score.total
           /\ analysis.score.percentage = 100
           /\ analysis.wrong_question_indices = <<>>

\* The correct answer of a fill-in-the-blank question is one of the answers
\* the question accepts: one of its comma-separated parts or a listed one.
AcceptsItsAnswer(question) ==
    TypeOf(question) = "fill_in_the_blank" =>
        lower(strip(GivenBack(question))) \in AcceptedAnswers(question)

\* C26 amended: the same for the questions that are not fill-in-the-blank
\* questions, and for the fill-in-the-blank questions whose resolved correct
\* answer is one of their accepted answers.
C26_CorrectAnswerGivenBack ==
    /\ ("judged" \in DOMAIN response /\ AllGivenBack) =>
           \A i \in 1..Len(response.judged) :
               (Answerable(quiz.questions[i]) /\ AcceptsItsAnswer(quiz.questions[i])) =>
                   response.judged[i]
    /\ (Scored /\ quiz.questions # <<>> /\ AllGivenBack
               /\ \A i \in 1..Len(quiz.questions) :
                      Answerable(quiz.questions[i]) /\ AcceptsItsAnswer(quiz.questions[i])) =>
           /\ analysis.score.correct = analysis.score.total
           /\ analysis.score.percentage = 100
           /\ analysis.wrong_question_indices = <<>>

\* C26 happens: a multiple-choice question whose answer has a comma and a
\* fill-in-the-blank question with listed answers, each given its correct
\* answer, are scored 2 of 2.
C26_Witness ==
    /\ Scored
    /\ AllGivenBack
    /\ Len(quiz.questions) = 2
    /\ quiz.questions[1].id = "j12"
    /\ quiz.questions[2].id = "j5"
    /\ analysis.score = [correct |-> 2, total |-> 2, percentage |-> 100]

(***************************************************************************)
(* The two completion reports: the progress statistics of the route        *)
(* /progress/check and the quiz prerequisites.                             *)
(***************************************************************************)
\* The route's content counts: len(lessons) and len(videos_data["videos"]).
lesson_count(subject, subtopic) == Len(load_lesson_plans(subject, subtopic).items)

video_count(subject, subtopic) == Len(get_video_data(subject, subtopic))

\* What the route /progress/check/<subject>/<subtopic> reports.
progress_stats(subject, subtopic, ctx) ==
    check_subtopic_progress(subject, subtopic, lesson_count(subject, subtopic),
                            video_count(subject, subtopic), ctx)

\* completed_items / total_items * 100 is above 100.
PercentageAbove100(stats) == stats.completed_items > stats.total_items

\* C29: for a subtopic with content, after any marks, the progress report is
\* complete exactly when the quiz prerequisites report the lessons and the
\* videos complete, and its completion percentage is at most 100.
C29_ReportsAgree ==
    \A p \in Pairs, ctx \in BOOLEAN :
        LET stats == progress_stats(p[1], p[2], ctx)
            gate == check_quiz_prerequisites(p[1], p[2], ctx)
        IN stats.total_items > 0 =>
               /\ stats.is_complete <=> (gate.lessons_complete /\ gate.videos_complete)
               /\ ~PercentageAbove100(stats)

(***************************************************************************)
(* ProgressService.admin_mark_complete, and the gates as a state machine:  *)
(* the override stays off; marks, the per-pair writers, clearing and       *)
(* admin_mark_complete are the steps.                                      *)
(***************************************************************************)
\* The ids admin_mark_complete reads from a raw lessons or videos payload:
\* the keys of a mapping, or each entry's id or "<prefix>_<position>".
admin_ids(payload, prefix) ==
    [index \in 1..Len(payload.items) |->
        IF payload.kind = "dict" THEN payload.items[index].key
        ELSE Or(Get(payload.items[index], "id"), prefix \o "_" \o ToString(index))]

\* session[key] = list(dict.fromkeys(ids)) if ids
admin_stored(sess, key, ids) ==
    IF ids # <<>> THEN DictSet(sess, key, UniqueInOrder(ids)) ELSE sess

\* Outside a request the first write to the session raises, and the call
\* reports failure.
admin_mark_complete(subject, subtopic, ctx) ==
    LET lesson_ids == admin_ids(load_lesson_plans(subject, subtopic), "lesson")
        video_ids == admin_ids(load_videos(subject, subtopic), "video")
        completed_key == get_session_key(subject, subtopic, "completed_lessons")
        watched_key == get_session_key(subject, subtopic, "watched_videos")
        override_key == get_session_key(subject, subtopic, "admin_complete")
    IN IF ~ctx
       THEN /\ ret' = "False"
            /\ UNCHANGED <<session, test_completed_lessons, test_watched_videos,
                           test_admin_override>>
       ELSE /\ session' =
                   DictSet(admin_stored(admin_stored(session, completed_key, lesson_ids),
                                        watched_key, video_ids),
                           override_key, TRUE)
            /\ ret' = "True"
            /\ UNCHANGED <<test_completed_lessons, test_watched_videos,
                           test_admin_override>>

\* The pairs of the gate machine: "a" with lessons and a video, "c" that
\* requires "a", and a subtopic of "web".
GatePairs == {<<"py", "a">>, <<"py", "c">>, <<"web", "v">>}

\* The pairs admin_mark_complete is called for: also the other shape of "web".
AdminPairs == GatePairs \cup {<<"web", "k">>}

MarkLessonOfGate ==
    \E p \in GatePairs, lesson_id \in LessonItemIds, ctx \in BOOLEAN :
        /\ StoredEntries < MaxStored
        /\ mark_lesson_complete(p[1], p[2], lesson_id, ctx)
        /\ UNCHANGED <<analysisVars, flowVars>>

MarkVideoOfGate ==
    \E p \in GatePairs, video_id \in VideoItemIds, ctx \in BOOLEAN :
        /\ StoredEntries < MaxStored
        /\ mark_video_complete(p[1], p[2], video_id, ctx)
        /\ UNCHANGED <<analysisVars, flowVars>>

StoreOfGate ==
    \E p \in GatePairs :
        /\ StoredEntries < MaxStored
        /\ \/ store_quiz_analysis(p[1], p[2], SampleAnalysis)
           \/ set_weak_topics(p[1], p[2], <<"loops">>)
           \/ set_remedial_quiz_data(p[1], p[2], SampleQuestions, None)
        /\ UNCHANGED <<analysisVars, flowVars>>

ClearOfGate ==
    /\ \/ \E p \in GatePairs : clear_session_data(p[1], p[2])
       \/ clear_all_session_data
    /\ UNCHANGED <<analysisVars, flowVars>>

AdminMarkComplete ==
    \E p \in AdminPairs, ctx \in BOOLEAN :
        /\ StoredEntries < MaxStored
        /\ admin_mark_complete(p[1], p[2], ctx)
        /\ UNCHANGED <<analysisVars, flowVars>>

NextGate ==
    \/ MarkLessonOfGate
    \/ MarkVideoOfGate
    \/ StoreOfGate
    \/ ClearOfGate
    \/ AdminMarkComplete

SpecGate == Init /\ [][NextGate]_vars

\* C28: whenever admin_mark_complete(s, t) has returned true, the quiz
\* prerequisites of (s, t), checked with the override off, report the
\* lessons complete, the videos complete and the quiz open, whatever the
\* shape of the subtopic's content.
C28_AdminMarkOpensQuiz ==
    [][\A p \in AdminPairs :
          (admin_mark_complete(p[1], p[2], TRUE) /\ ret' = "True") =>
              \E gate \in {check_quiz_prerequisites(p[1], p[2], TRUE)'} :
                  /\ ~gate.admin_override
                  /\ gate.lessons_complete
                  /\ gate.videos_complete
                  /\ gate.can_take_quiz]_vars

\* The pairs whose gates are watched: also a subtopic with an unknown
\* prerequisite, and an unknown subtopic.
GateQueryPairs == AdminPairs \cup {<<"py", "a_b">>, <<"py", "ghost">>}

\* The quizzes that may be taken: (pair, context).
OpenQuizzes ==
    {g \in GateQueryPairs \X BOOLEAN :
        check_quiz_prerequisites(g[1][1], g[1][2], g[2]).can_take_quiz}

\* The subtopics that may be entered: (pair, context).
OpenSubtopics ==
    {g \in GateQueryPairs \X BOOLEAN :
        check_subtopic_prerequisites(g[1][1], g[1][2], g[2]).can_access_subtopic}

\* With the override off, a subtopic may be entered exactly when each of its
\* configured prerequisites is a subtopic whose own quiz may be taken: the
\* two gates rest on the same completion of content.
OpenSubtopicsFollowQuizzes ==
    \A g \in GateQueryPairs \X BOOLEAN :
        /\ ~get_admin_override_status(g[2])
        /\ g \in OpenSubtopics <=>
               \A i \in DOMAIN ConfiguredPrerequisiteIds(g[1][1], g[1][2]) :
                   LET prereq == ConfiguredPrerequisiteIds(g[1][1], g[1][2])[i]
                   IN /\ prereq \in DOMAIN load_subject_config(g[1][1])
                      /\ <<<<g[1][1], prereq>>, g[2]>> \in OpenQuizzes

\* With the override off, the quiz of a pair may be taken exactly when each
\* lesson id and each video id its content requires is held for the pair.
OpenQuizzesFollowContent ==
    \A g \in GateQueryPairs \X BOOLEAN :
        g \in OpenQuizzes <=> ContentDone(g[1][1], g[1][2], g[2])

\* The content ids of the watched pairs.
GateContentIds ==
    UNION {RequiredLessonIds(p[1], p[2]) \cup RequiredVideoIds(p[1], p[2]) :
              p \in GateQueryPairs}

\* The lesson ids held as completed: (pair, context, id).
HeldLessons ==
    {h \in GateQueryPairs \X BOOLEAN \X GateContentIds :
        is_lesson_complete(h[1][1], h[1][2], h[3], h[2])}

\* The video ids held as watched: (pair, context, id).
HeldVideos ==
    {h \in GateQueryPairs \X BOOLEAN \X GateContentIds :
        is_video_complete(h[1][1], h[1][2], h[3], h[2])}

\* Nothing held before the step is lost in it.
NothingLost == HeldLessons \subseteq HeldLessons' /\ HeldVideos \subseteq HeldVideos'

\* A call of mark_lesson_complete, mark_video_complete, store_quiz_analysis,
\* set_weak_topics or set_remedial_quiz_data, for any pair.
MarkOrStoreStep == MarkLessonOfGate \/ MarkVideoOfGate \/ StoreOfGate

\* A call of clear_session_data, clear_all_session_data or admin_mark_complete.
ClearOrAdminStep == ClearOfGate \/ AdminMarkComplete

\* C27: with the override off, a gate that is open stays open over every
\* mark and every per-pair write, for any pair; a gate closes only in a step
\* of clear_session_data, clear_all_session_data or admin_mark_complete.
\* In every state the subtopic gates are a function of the quiz gates of
\* the prerequisites and the quiz gates grow with what is held for the
\* pair, and no mark or write loses anything held.
C27_GatesStayOpen ==
    /\ []OpenSubtopicsFollowQuizzes
    /\ []OpenQuizzesFollowContent
    /\ [][MarkOrStoreStep => NothingLost]_vars
    /\ [][~NothingLost => ClearOrAdminStep]_vars

\* C27 happens: the quiz of "a" is open in the session after its two
\* lessons and its video were marked, an analysis is stored, and "c" may be
\* entered.
C27_Witness ==
    /\ <<<<"py", "a">>, TRUE>> \in OpenQuizzes
    /\ <<<<"py", "c">>, TRUE>> \in OpenSubtopics
    /\ get_completed_lessons("py", "a", TRUE) # <<>>
    /\ get_session_key("py", "a", "analysis_results") \in DOMAIN session

(***************************************************************************)
(* The analysis cache: what is written to it, and when.                    *)
(***************************************************************************)
\* The tags of an LLM response that pass the vocabulary of the quiz's
\* subject: none when the response holds no JSON object.
ValidatedLLMTags(ai_response) ==
    LET parsed_response == _extract_json_object(ai_response)
        given_tags == JGet(parsed_response.object, "weak_concept_tags")
        allowed_lookup == AllowedLookup(NormalizedAllowedTags(quiz.subject))
    IN IF ~parsed_response.found THEN <<>>
       ELSE IF given_tags.t = "str"
       THEN filter_allowed_tags(<<given_tags.s>>, allowed_lookup)
       ELSE IF given_tags.t \in {"list", "obj"}
       THEN filter_allowed_tags(given_tags.items, allowed_lookup)
       ELSE <<>>

\* A cached entry holds the validated tags of the response it came from.
CachedEntryValidated(entry) ==
    /\ entry.used_ai
    /\ entry.analysis_stage = "enhanced"
    /\ entry.weak_topics # <<>>
    /\ entry.weak_topics = ValidatedLLMTags(entry.raw_ai_response)

\* C22: the cache gains an entry only in a call of analyze_quiz_performance
\* whose LLM response holds a JSON object with at least one tag of the
\* vocabulary, the entry of that submission; every other call leaves the
\* cache as it was; every cached entry has used_ai true, analysis_stage
\* "enhanced" and, as weak_topics, the validated tags of the LLM.
C22_CacheOnlyValidated ==
    /\ [](\A key \in DOMAIN analysis_cache : CachedEntryValidated(analysis_cache[key]))
    /\ [][analysis_cache' # analysis_cache =>
            /\ CallsLLM
            /\ "raw_ai_response" \in DOMAIN analysis'
            /\ ValidatedLLMTags(analysis'.raw_ai_response) # <<>>
            /\ \E entry \in {CachedFields(analysis')} :
                   analysis_cache' =
                       DictSet(analysis_cache,
                               _build_cache_key(quiz.questions, quiz.answers,
                                                quiz.subject, quiz.subtopic),
                               entry)]_vars

(***************************************************************************)
(* The allowed-tag vocabulary under configuration updates: analyses and    *)
(* DataService.update_subject in one process.                              *)
(***************************************************************************)
\* update_subject(subject_id, allowed_tags=allowed_tags) of an existing
\* subject: subject_config.json is rewritten with the list and the loader's
\* cache of the subject is cleared, so the next read sees the new list.
update_subject(subject_id, allowed_tags) ==
    /\ allowed_tags_config' = DictSet(allowed_tags_config, subject_id, allowed_tags)
    /\ ret' = "True"
    /\ UNCHANGED <<session, test_completed_lessons, test_watched_videos,
                   test_admin_override, quiz, analysis, analysis_cache, api_key,
                   allowed_tag_cache>>

UpdateSubject ==
    \E subject_id \in Subjects, allowed_tags \in VocabularyInputs :
        /\ update_subject(subject_id, allowed_tags)
        /\ UNCHANGED flowVars

NextVocabulary ==
    \/ ComputeBasicQuizAnalysis
    \/ UpdateSubject

SpecVocabulary == InitAnalysis /\ [][NextVocabulary]_vars

\* C30: in every state, after any analyses and any updates of the
\* configuration, the basic analysis made there filters against and returns
\* as allowed_tags the subject's configured list of that state.
C30_VocabularyIsCurrent ==
    compute_basic_quiz_analysis(quiz.questions, quiz.answers, quiz.subject,
                                quiz.subtopic).allowed_tags
        = NormalizedAllowedTags(quiz.subject)

(***************************************************************************)
(* The route /analyze (blueprints/main_routes.py), and submissions as a    *)
(* state machine: quizzes are opened, remedial quizzes generated and       *)
(* answers submitted, with the outcomes of the LLM call.                   *)
(***************************************************************************)
\* The text of an LLM response as far as its preview goes: None when there
\* was no response, else its form and the fields it names.
raw_text(ai_response) ==
    CASE ai_response.form = "none" -> None
      [] ai_response.form = "empty" -> ""
      [] ai_response.form = "prose" -> "I cannot say."
      [] ai_response.form = "braces" -> "{oops"
      [] ai_response.form = "scalar" -> "5"
      [] OTHER -> IF "weak_concept_tags" \in DOMAIN ai_response.payload
                  THEN "{\"weak_concept_tags\": ...}" ELSE "{...}"

\* answers of the route: str(raw_answers.get("q<index>", "")).strip() for
\* each question; raw_answers maps 0-based positions to texts.
route_answers(questions, raw_answers) ==
    [i \in 1..Len(questions) |->
        strip(IF (i - 1) \in DOMAIN raw_answers THEN raw_answers[i - 1] ELSE "")]

\* store_quiz_analysis of the route: the analysis as the session keeps it.
stored_analysis_of(analysis_result) ==
    prepare_analysis_for_session(
        IF "raw_ai_response" \in DOMAIN analysis_result
        THEN Merge(analysis_result,
                   [raw_ai_response |-> raw_text(analysis_result.raw_ai_response)])
        ELSE analysis_result)

\* The session after the route has stored the analysis, the weak topics,
\* and the last analysis and answers.
analysis_stored(sess, subject, subtopic, stored_analysis, answers) ==
    LET s1 == DictSet(sess, get_session_key(subject, subtopic, "analysis_results"),
                      stored_analysis)
        s2 == DictSet(s1, get_session_key(subject, subtopic, "weak_topics"),
                      set_weak_topics_loop(fallback_topics_of(stored_analysis), <<>>, {}))
        s3 == DictSet(s2, "quiz_analysis", stored_analysis)
    IN DictSet(s3, "quiz_answers", answers)

\* A failure of the route before anything is analysed.
analyze_failure(status, error) ==
    /\ response' = [status |-> status, route |-> "analyze_quiz", error |-> error]
    /\ UNCHANGED <<session, test_completed_lessons, test_watched_videos,
                   test_admin_override, ret, quiz, analysis, analysis_cache,
                   allowed_tag_cache>>

\* The route once the questions of the active quiz are read: the answers
\* are analysed and the result is stored, or the analysis raises.
analyze_of_active(subject, subtopic, questions, answers, ai_response) ==
    \E returned \in {analyze_quiz_performance(questions, answers, subject, subtopic,
                                              ai_response)} :
        /\ quiz' = [questions |-> questions, answers |-> answers,
                    subject |-> subject, subtopic |-> subtopic]
        /\ analysis' = returned.analysis
        /\ analysis_cache' = returned.cache
        /\ allowed_tag_cache' = AllowedTagCacheAfter(subject)
        /\ UNCHANGED <<test_completed_lessons, test_watched_videos,
                       test_admin_override>>
        /\ IF "raised" \in DOMAIN returned.analysis
           THEN /\ response' = [status |-> 500, route |-> "analyze_quiz",
                                error |-> "Error analyzing quiz: "
                                              \o returned.analysis.raised]
                /\ UNCHANGED <<session, ret>>
           ELSE \E stored_analysis \in {stored_analysis_of(returned.analysis)} :
                  /\ session' = analysis_stored(session, subject, subtopic,
                                                stored_analysis, answers)
                  /\ ret' = "None"
                  /\ response' = [status |-> 200, route |-> "analyze_quiz",
                                  success |-> TRUE, analysis |-> stored_analysis]

analyze_quiz(raw_answers, ai_response) ==
    IF ~Truthy(DictGet(session, "current_subject", None))
           \/ ~Truthy(DictGet(session, "current_subtopic", None))
    THEN analyze_failure(400, "Error: No active quiz session found.")
    ELSE IF ListOr(get_quiz_session_data(session.current_subject,
                                         session.current_subtopic).questions,
                   <<>>) = <<>>
    THEN analyze_failure(400, "Error: No quiz questions found in session.")
    ELSE analyze_of_active(
             session.current_subject, session.current_subtopic,
             get_quiz_session_data(session.current_subject,
                                   session.current_subtopic).questions,
             route_answers(get_quiz_session_data(session.current_subject,
                                                 session.current_subtopic).questions,
                           raw_answers),
             ai_response)

\* Analyses are cached while fewer than this many are.
MaxCached == 1

\* The pairs whose quiz is opened: two with a quiz, whose session keys are
\* those of no other pair or those of ("py", "a_b").
SubmitPairs == {<<"py", "c">>, <<"py_a", "b">>}

\* The pairs whose stored records are watched.
SubmitQueryPairs == SubmitPairs \cup {<<"py", "a">>, <<"py", "a_b">>}

\* What a learner sends for the questions served: nothing, the correct
\* answer to each, or the correct answer to the first only.
SubmittedAnswers(questions) ==
    IF questions = <<>> THEN {EmptyDict}
    ELSE {EmptyDict,
          [i \in 0..(Len(questions) - 1) |->
              " " \o resolve_correct_answer(questions[i + 1]) \o " "],
          [i \in {0} |-> resolve_correct_answer(questions[1])]}

\* The outcomes of the LLM call for a submission.
SubmitOutcomes == {"none", "tags_mixed", "tags_number"}

InitSubmit ==
    /\ session = EmptyDict
    /\ test_completed_lessons = EmptyDict
    /\ test_watched_videos = EmptyDict
    /\ test_admin_override = FALSE
    /\ ret = "None"
    /\ quiz = NoQuiz
    /\ analysis = NoAnalysis
    /\ analysis_cache = EmptyDict
    /\ api_key \in {None, "sk-test"}
    /\ allowed_tags_config = DefaultAllowedTags
    /\ allowed_tag_cache = EmptyDict
    /\ question_pool = [i \in 1..3 |-> PoolQuestionAt("mixed", i)]
    /\ response = NoRouteResponse

QuizPageOfSubmit ==
    \E p \in SubmitPairs :
        /\ quiz_page(p[1], p[2])
        /\ UNCHANGED <<analysisVars, question_pool>>

\* The questions the route would read.
ActiveQuestions ==
    IF ActiveQuiz
    THEN ListOr(get_quiz_session_data(session.current_subject,
                                      session.current_subtopic).questions, <<>>)
    ELSE <<>>

\* The LLM is called when the service is available and the submission is
\* not cached; a call that would add to a full cache is not taken.
AnalyzeQuiz ==
    \E raw_answers \in SubmittedAnswers(ActiveQuestions) :
      \E outcome \in (IF is_available THEN SubmitOutcomes ELSE {"none"}) :
        /\ Cardinality(DOMAIN analysis_cache) < MaxCached \/ outcome # "tags_mixed"
        /\ analyze_quiz(raw_answers, LLMResponse(outcome))
        /\ UNCHANGED <<api_key, allowed_tags_config, question_pool>>

NextSubmit ==
    \/ QuizPageOfSubmit
    \/ GenerateRemedialQuiz
    \/ AnalyzeQuiz

SpecSubmit == InitSubmit /\ [][NextSubmit]_vars

(***************************************************************************)
(* Submissions: what is scored and what is stored.                         *)
(***************************************************************************)
\* The analysis stored for a pair: an empty record when there is none.
StoredAnalysis(p) ==
    DictGet(session, get_session_key(p[1], p[2], "analysis_results"), EmptyDict)

\* The step is a submission that was analysed and stored.
SubmissionStored == response'.status = 200 /\ response'.route = "analyze_quiz"

\* The active quiz context holds the initial set after quiz_page and the
\* remedial set after remedial generation.
ActiveSetIsServedSet ==
    /\ (response.status = 200 /\ response.route = "quiz_page") =>
           ActiveQuestions = get_quiz_questions(response.subject, response.subtopic)
    /\ (response.status = 200 /\ response.route = "generate_remedial_quiz") =>
           ActiveQuestions = StoredRemedial

\* The submission is scored against the question set of the active quiz.
ScoredAgainstActiveSet ==
    /\ quiz'.questions = ActiveQuestions
    /\ quiz'.subject = session.current_subject
    /\ quiz'.subtopic = session.current_subtopic
    /\ analysis'.score =
           compute_basic_quiz_analysis(ActiveQuestions, quiz'.answers,
                                       session.current_subject,
                                       session.current_subtopic).score

\* The analysis stored for the active pair is the sanitized analysis of this
\* submission, and the stored weak topics are those of the analysis.
LatestIsStored ==
    /\ StoredAnalysis(<<session.current_subject, session.current_subtopic>>)'
           = stored_analysis_of(analysis')
    /\ DOMAIN stored_analysis_of(analysis')
           \subseteq keys_to_keep \cup {"submission_preview", "raw_ai_response_preview"}
    /\ get_weak_topics(session.current_subject, session.current_subtopic)'
           = analysis'.weak_topics

\* After a fully correct submission no weak topic is stored.
NoneAfterFullyCorrect ==
    analysis'.score.correct = analysis'.score.total =>
        get_weak_topics(session.current_subject, session.current_subtopic)' = <<>>

\* The stored analysis of every other pair is as it was.
OthersUntouched ==
    \A p \in SubmitQueryPairs :
        p # <<session.current_subject, session.current_subtopic>> =>
            StoredAnalysis(p)' = StoredAnalysis(p)

\* C21: every submission is scored against the question set of the active
\* quiz context, the initial set after quiz_page and the remedial set after
\* remedial generation; after it the analysis stored for the pair is the
\* sanitized analysis of this submission and the stored weak topics are
\* those of this analysis, none after a fully correct submission; the
\* stored analysis of no other pair changes.
C21_LatestSubmissionStored ==
    /\ []ActiveSetIsServedSet
    /\ [][SubmissionStored =>
            /\ ScoredAgainstActiveSet
            /\ LatestIsStored
            /\ NoneAfterFullyCorrect
            /\ OthersUntouched]_vars

(***************************************************************************)
(* The LLM call with retries (AIService.call_openai_api).  One call is     *)
(* followed from its entry to its return; `response` holds the position    *)
(* and the locals of the call.  A channel is one of the client entry       *)
(* points an attempt tries in turn; what a channel gives is the outcome    *)
(* of _invoke followed by _extract_content_from_response.                  *)
(***************************************************************************)
\* Calls are made with max_attempts up to this bound.
MaxAttemptsBound == 4

\* backoff_seconds before the first sleep.
InitialBackoff == 1

\* What one channel gives: an exception, or the extracted content.
ChannelOutcomes == {"raise", None, " \n", " ok\n"}

\* The content a channel outcome leaves in `content`.
content_of(outcome) == IF outcome = "raise" THEN None ELSE outcome

\* The channels an attempt tries: client.chat.completions.create, the two
\* module-level entry points, client.responses.create.
channels(client) == IF client THEN 4 ELSE 2

\* The first channel whose content is truthy, 0 when there is none.
first_with_content(outcomes) ==
    LET found == {k \in 1..Len(outcomes) : Truthy(content_of(outcomes[k]))}
    IN  IF found = {} THEN 0 ELSE CHOOSE k \in found : \A j \in found : k <= j

\* return <value>
call_returns(call, value) == [call EXCEPT !.pc = "returned", !.result = value]

\* The head of `for attempt in range(1, max_attempts + 1)`.
next_attempt(call) ==
    IF call.attempt + 1 <= call.max_attempts
    THEN [call EXCEPT !.pc = "attempt", !.attempt = call.attempt + 1]
    ELSE call_returns(call, None)

\* The call before its first statement.
CallEntered(max_attempts, client) ==
    [pc |-> "call", max_attempts |-> max_attempts, client |-> client,
     attempt |-> 0, backoff_seconds |-> InitialBackoff, slept |-> <<>>,
     calls |-> 0, obtained |-> <<>>, result |-> None]

\* The client is built only when an API key is configured.
InitCall ==
    /\ session = EmptyDict
    /\ test_completed_lessons = EmptyDict
    /\ test_watched_videos = EmptyDict
    /\ test_admin_override = FALSE
    /\ ret = "None"
    /\ quiz = NoQuiz
    /\ analysis = NoAnalysis
    /\ analysis_cache = EmptyDict
    /\ allowed_tags_config = DefaultAllowedTags
    /\ allowed_tag_cache = EmptyDict
    /\ question_pool = <<>>
    /\ \E key \in {None, "sk-test"}, max_attempts \in 0..MaxAttemptsBound,
          client \in BOOLEAN :
           /\ api_key = key
           /\ client => key # None
           /\ response = CallEntered(max_attempts, client)

\* if not self.is_available(): return None; otherwise the loop is entered.
EnterCall ==
    /\ response.pc = "call"
    /\ response' = IF ~is_available THEN call_returns(response, None)
                   ELSE next_attempt(response)
    /\ UNCHANGED <<progressVars, analysisVars, question_pool>>

\* One pass of the loop body up to the sleep: the channels are tried in turn,
\* the first truthy content is returned stripped, exceptions are kept in
\* last_error only.
Attempt ==
    /\ response.pc = "attempt"
    /\ \E outcomes \in [1..channels(response.client) -> ChannelOutcomes] :
         LET k == first_with_content(outcomes)
             tried == [response EXCEPT
                          !.calls = @ + (IF k = 0 THEN Len(outcomes) ELSE k),
                          !.obtained = Append(@, IF k = 0 THEN None
                                                 ELSE content_of(outcomes[k]))]
         IN  response' =
                 IF k # 0 THEN call_returns(tried, strip(content_of(outcomes[k])))
                 ELSE IF tried.attempt < tried.max_attempts
                      THEN [tried EXCEPT !.pc = "sleep"]
                      ELSE next_attempt(tried)
    /\ UNCHANGED <<progressVars, analysisVars, question_pool>>

\* time.sleep(backoff_seconds); backoff_seconds *= 2
Sleep ==
    /\ response.pc = "sleep"
    /\ response' = next_attempt([response EXCEPT
                                    !.slept = Append(@, response.backoff_seconds),
                                    !.backoff_seconds = @ * 2])
    /\ UNCHANGED <<progressVars, analysisVars, question_pool>>

NextCall ==
    \/ EnterCall
    \/ Attempt
    \/ Sleep

SpecCall == InitCall /\ [][NextCall]_vars

\* One thread runs the call, every request has a timeout and every sleep
\* ends: a step that can be taken is taken.
SpecCallFair == SpecCall /\ WF_vars(NextCall)

Returned == response.pc = "returned"

\* The attempts that obtained a truthy content.
Obtaining == {n \in 1..Len(response.obtained) : Truthy(response.obtained[n])}

\* With no API key the call returns None and nothing is requested.
NoKeyNoRequest ==
    (Returned /\ api_key = None) => response.result = None /\ response.calls = 0

\* At most max_attempts attempts are made.
AttemptsBounded ==
    /\ response.attempt <= response.max_attempts
    /\ Len(response.obtained) <= response.max_attempts

\* The delays are 1, 2, 4, ...; one between consecutive attempts, none after
\* the last.
SleepsDouble ==
    /\ \A i \in 1..Len(response.slept) : response.slept[i] = 2 ^ (i - 1)
    /\ Returned => Len(response.slept) = Len(response.obtained) - 1
                       \/ (response.obtained = <<>> /\ response.slept = <<>>)

\* Nothing follows an attempt that obtained content, and what is returned
\* then is that content, which is not empty.
FirstContentReturned ==
    (Returned /\ Obtaining # {}) =>
        /\ Obtaining = {Len(response.obtained)}
        /\ Truthy(response.result)
        /\ response.result = strip(response.obtained[Len(response.obtained)])

\* What is returned then is that content with its surrounding whitespace
\* removed.
FirstContentReturnedStripped ==
    (Returned /\ Obtaining # {}) =>
        /\ Obtaining = {Len(response.obtained)}
        /\ response.result = strip(response.obtained[Len(response.obtained)])

\* None is returned when no attempt obtained content, after every attempt
\* was made.
NoneWhenNothingObtained ==
    (Returned /\ Obtaining = {}) =>
        /\ response.result = None
        /\ is_available => Len(response.obtained) = response.max_attempts

\* C24: call_openai_api always returns; with no API key it returns None and
\* requests nothing; otherwise it makes at most max_attempts attempts,
\* returns the first non-empty content obtained, sleeps 1 s, 2 s, ...
\* between consecutive failed attempts and not after the last, and returns
\* None when no attempt obtains content.
C24_CallTerminates ==
    /\ <>Returned
    /\ [](/\ NoKeyNoRequest
          /\ AttemptsBounded
          /\ SleepsDouble
          /\ FirstContentReturned
          /\ NoneWhenNothingObtained)

(***************************************************************************)
(* Concurrent analyses on one AIService.  Each request thread runs         *)
(* analyze_quiz_performance on the submission in `quiz`; `response` holds  *)
(* the holder of AIService._cache_lock and, per thread, its position and   *)
(* locals.  A thread is at "get" or "set" between acquiring and releasing  *)
(* the lock in _get_cached_analysis or _set_cached_analysis, and at        *)
(* "in_flight" from the call of call_openai_api to its return.             *)
(***************************************************************************)
\* The request threads.
MaxThreads == 2

Threads == 1..MaxThreads

\* _cache_lock when no thread holds it.
Unlocked == 0

\* What call_openai_api gives the threads.
ConcurrentOutcomes == {"none", "tags_mixed", "tags_fabricated", "tags_number"}

\* The submissions the threads analyse: one question, answered or not.
ConcurrentQuizzes == {q \in QuizInputs : Len(q.questions) = 1}

ThreadEntered ==
    [pc |-> "start", missed |-> FALSE, requests |-> 0, wrote |-> FALSE,
     analysis |-> NoAnalysis]

\* The service has an API key: without one no analysis reaches the LLM call.
InitConcurrent ==
    /\ session = EmptyDict
    /\ test_completed_lessons = EmptyDict
    /\ test_watched_videos = EmptyDict
    /\ test_admin_override = FALSE
    /\ ret = "None"
    /\ quiz \in ConcurrentQuizzes
    /\ analysis = NoAnalysis
    /\ analysis_cache = EmptyDict
    /\ api_key = "sk-test"
    /\ allowed_tags_config = DefaultAllowedTags
    /\ allowed_tag_cache = EmptyDict
    /\ question_pool = <<>>
    /\ response = [lock |-> Unlocked, threads |-> [t \in Threads |-> ThreadEntered]]

\* The cache key and the basic analysis of the submission.
SubmissionKey == _build_cache_key(quiz.questions, quiz.answers, quiz.subject, quiz.subtopic)

BasicOfSubmission ==
    compute_basic_quiz_analysis(quiz.questions, quiz.answers, quiz.subject, quiz.subtopic)

\* The thread is as given and the lock is held by `holder`.
thread_moves(t, thread, holder) ==
    response' = [lock |-> holder, threads |-> [response.threads EXCEPT ![t] = thread]]

\* analyze_quiz_performance up to "with self._cache_lock:" of
\* _get_cached_analysis: the basic analysis is computed, the lock acquired.
AcquireForGet(t) ==
    /\ response.threads[t].pc = "start"
    /\ response.lock = Unlocked
    /\ thread_moves(t, [response.threads[t] EXCEPT !.pc = "get"], t)
    /\ allowed_tag_cache' = AllowedTagCacheAfter(quiz.subject)
    /\ UNCHANGED <<progressVars, question_pool, quiz, analysis, analysis_cache,
                   api_key, allowed_tags_config>>

\* return self._analysis_cache.get(cache_key), the lock is released; a
\* cached entry is merged and returned, otherwise call_openai_api is called.
GetCached(t) ==
    /\ response.threads[t].pc = "get"
    /\ LET thread == response.threads[t]
           with_tags == Merge(BasicOfSubmission,
                              [allowed_tags |->
                                  analysis_allowed_tags(BasicOfSubmission, quiz.subject)])
       IN  IF SubmissionKey \in DOMAIN analysis_cache
           THEN thread_moves(t, [thread EXCEPT
                                    !.pc = "returned",
                                    !.analysis = Merge(with_tags,
                                                       analysis_cache[SubmissionKey])],
                             Unlocked)
           ELSE IF ~is_available
           THEN thread_moves(t, [thread EXCEPT !.pc = "returned", !.missed = TRUE,
                                               !.analysis = with_tags],
                             Unlocked)
           ELSE thread_moves(t, [thread EXCEPT !.pc = "in_flight", !.missed = TRUE,
                                               !.requests = @ + 1],
                             Unlocked)
    /\ UNCHANGED <<progressVars, analysisVars, question_pool>>

\* call_openai_api returns: the response is applied; an enhanced analysis
\* goes on to be cached, another one is returned, a TypeError is raised.
LLMReturns(t) ==
    /\ response.threads[t].pc = "in_flight"
    /\ \E outcome \in ConcurrentOutcomes :
         LET an == analysis_after_miss(BasicOfSubmission, quiz.subject,
                                       LLMResponse(outcome))
             thread == response.threads[t]
         IN  thread_moves(t,
                 IF an = Raised THEN [thread EXCEPT !.pc = "raised"]
                 ELSE IF "used_ai" \in DOMAIN an /\ an.used_ai
                 THEN [thread EXCEPT !.pc = "store", !.analysis = an]
                 ELSE [thread EXCEPT !.pc = "returned", !.analysis = an],
                 response.lock)
    /\ UNCHANGED <<progressVars, analysisVars, question_pool>>

\* "with self._cache_lock:" of _set_cached_analysis.
AcquireForSet(t) ==
    /\ response.threads[t].pc = "store"
    /\ response.lock = Unlocked
    /\ thread_moves(t, [response.threads[t] EXCEPT !.pc = "set"], t)
    /\ UNCHANGED <<progressVars, analysisVars, question_pool>>

\* self._analysis_cache[cache_key] = analysis, the lock is released and the
\* analysis returned.
SetCached(t) ==
    /\ response.threads[t].pc = "set"
    /\ analysis_cache' = _set_cached_analysis(analysis_cache, SubmissionKey,
                                              CachedFields(response.threads[t].analysis))
    /\ thread_moves(t, [response.threads[t] EXCEPT !.pc = "returned", !.wrote = TRUE],
                    Unlocked)
    /\ UNCHANGED <<progressVars, question_pool, quiz, analysis, api_key,
                   allowed_tags_config, allowed_tag_cache>>

NextConcurrent ==
    \E t \in Threads :
        \/ AcquireForGet(t)
        \/ GetCached(t)
        \/ LLMReturns(t)
        \/ AcquireForSet(t)
        \/ SetCached(t)

SpecConcurrent == InitConcurrent /\ [][NextConcurrent]_vars

\* The lock is held exactly by a thread inside a dictionary get or set.
LockAroundDictionaryOnly ==
    /\ \A t \in Threads :
           response.threads[t].pc \in {"get", "set"} <=> response.lock = t
    /\ response.lock \in Threads \cup {Unlocked}

\* A thread whose LLM request is in flight does not hold the lock, and a
\* thread that waits for the lock waits for a thread inside a get or a set.
NoLockAcrossRequest ==
    \A t \in Threads :
        /\ response.threads[t].pc = "in_flight" => response.lock # t
        /\ (response.threads[t].pc \in {"start", "store"} /\ response.lock # Unlocked) =>
               response.threads[response.lock].pc \in {"get", "set"}

\* Every thread that missed the cache issued its own LLM request, no other
\* thread issued one.
OwnRequestPerMiss ==
    \A t \in Threads :
        response.threads[t].requests = (IF response.threads[t].missed THEN 1 ELSE 0)

\* The entry under the key is the whole entry of one thread that wrote it.
EntryOfOneWriter ==
    /\ DOMAIN analysis_cache \subseteq {SubmissionKey}
    /\ SubmissionKey \in DOMAIN analysis_cache =>
           \E t \in Threads :
               /\ response.threads[t].wrote
               /\ analysis_cache[SubmissionKey] = CachedFields(response.threads[t].analysis)

\* C23: the cache lock is held only during one dictionary get or set and
\* never by a thread whose LLM request is in flight; every thread that
\* misses the cache issues its own LLM request; the entry stored under the
\* key of the submission is at all times the complete entry of one thread
\* that wrote it.
C23_LockAroundCacheOnly ==
    /\ LockAroundDictionaryOnly
    /\ NoLockAcrossRequest
    /\ OwnRequestPerMiss
    /\ EntryOfOneWriter

\* Both threads missed the cache, each issued a request and wrote an entry,
\* the two entries differ, and both have returned.
C23_Witness ==
    /\ \A t \in Threads :
           /\ response.threads[t].pc = "returned"
           /\ response.threads[t].missed
           /\ response.threads[t].requests = 1
           /\ response.threads[t].wrote
    /\ CachedFields(response.threads[1].analysis)
           # CachedFields(response.threads[2].analysis)
    /\ SubmissionKey \in DOMAIN analysis_cache

====
